---- MODULE Spec2Model ----
(***************************************************************************)
(* Secure filesystem tool server of src/index.ts: the path sandbox         *)
(* (validatePath), the patch engine (applyFileEdits), the recursive        *)
(* search (searchFiles), the start-up of the process, the CallTool request *)
(* handler, move_file, read_multiple_files, create_directory and           *)
(* write_audio_metadata.                                                   *)
(*                                                                         *)
(* Text (paths, file contents, edit fragments) is a sequence of one-       *)
(* character strings, so that String.prototype.startsWith, includes,       *)
(* replace, split and trim are computed character by character.            *)
(***************************************************************************)
EXTENDS Integers, Sequences, FiniteSets, TLC

VARIABLES
    allowedDirectories, \* the allow-list, fixed at start-up
    fs,                 \* the filesystem: node path -> [type, target]
    requestedPath,      \* argument of the last validatePath call
    outcome,            \* its result: returned path or thrown message
    disk,               \* on-disk content of the edited file
    diskBefore,         \* history: on-disk content when the call started
    edits,              \* the edit list of the request
    dryRun,             \* the dryRun flag of the request
    pc,                 \* position of applyFileEdits
    content,            \* applyFileEdits: normalized original content
    modifiedContent,    \* applyFileEdits: accumulator
    editIdx,            \* applyFileEdits: number of edits already applied
    editResult,         \* applyFileEdits: what the call returned or threw
    rootPath,           \* searchFiles: the validated root of the search
    pattern,            \* searchFiles: the name pattern
    excludePatterns,    \* searchFiles: the exclude patterns
    unreadable,         \* directories whose listing the system refuses
    stack,              \* searchFiles: the calls of search() in progress
    results,            \* searchFiles: the paths collected so far
    searchOutcome,      \* searchFiles: what the call returned or threw
    walked,             \* history: the readdir calls and loop turns of the search
    argv,               \* process.argv.slice(2): the roots given at start-up
    phase,              \* position of the process: start-up, running, exited
    exitCode,           \* status passed to process.exit
    checked,            \* start-up: indices of the roots whose stat succeeded
    handler,            \* which CallTool handler the build has
    request,            \* the last tool call: name and arguments
    response,           \* what the handler's promise settled to
    failure,            \* history: the error raised while serving the call
    served,             \* number of tool calls served
    paths,              \* read_multiple_files: the paths requested
    progress,           \* read_multiple_files: how far each path's task is
    slotTexts,          \* read_multiple_files: the text each task returned
    firstDone,          \* history: index of the task that returned first
    readResponse,       \* read_multiple_files: the result of the call
    tool,               \* tool run: the name of the tool invoked
    toolPath,           \* tool run: its path argument
    toolPc,             \* tool run: the statement the run is about to execute
    toolValid,          \* tool run: what validatePath came to (validPath)
    touched,            \* history: every path the run handed to fs or ffmpeg
    validated,          \* history: every path validatePath returned to the run
    toolOutcome,        \* tool run: the result returned or the error thrown
    fsBefore            \* history: the filesystem when the tool was invoked

pathVars == <<allowedDirectories, fs, requestedPath, outcome>>
editVars == <<disk, diskBefore, edits, dryRun, pc, content, modifiedContent, editIdx, editResult>>
searchVars == <<rootPath, pattern, excludePatterns, unreadable, stack, results,
                searchOutcome, walked>>
serverVars == <<argv, phase, exitCode, checked, handler, request, response, failure, served>>
readVars == <<paths, progress, slotTexts, firstDone, readResponse>>
toolVars == <<tool, toolPath, toolPc, toolValid, touched, validated, toolOutcome, fsBefore>>
vars == <<allowedDirectories, fs, requestedPath, outcome,
          disk, diskBefore, edits, dryRun, pc, content, modifiedContent, editIdx,
          editResult,
          rootPath, pattern, excludePatterns, unreadable, stack, results, searchOutcome,
          walked,
          argv, phase, exitCode, checked, handler, request, response, failure, served,
          paths, progress, slotTexts, firstDone, readResponse,
          tool, toolPath, toolPc, toolValid, touched, validated, toolOutcome, fsBefore>>

----------------------------------------------------------------------------
(* Bounds *)

MaxNodes == 2       \* nodes the host keeps below the top-level directories
MaxLinkHops == 4    \* symlink expansions before realpath gives up (ELOOP)

----------------------------------------------------------------------------
(* Strings *)

SEP == "/"

StartsWith(s, prefix) ==
    /\ Len(prefix) <= Len(s)
    /\ SubSeq(s, 1, Len(prefix)) = prefix

Slice(s, from) == SubSeq(s, from + 1, Len(s))

RECURSIVE SplitFrom(_, _, _, _)
SplitFrom(s, sep, i, cur) ==
    IF i > Len(s) THEN <<cur>>
    ELSE IF s[i] = sep THEN <<cur>> \o SplitFrom(s, sep, i + 1, <<>>)
    ELSE SplitFrom(s, sep, i + 1, Append(cur, s[i]))

Split(s, sep) == SplitFrom(s, sep, 1, <<>>)

RECURSIVE Join(_, _)
Join(parts, sep) ==
    IF parts = <<>> THEN <<>>
    ELSE IF Len(parts) = 1 THEN parts[1]
    ELSE parts[1] \o <<sep>> \o Join(Tail(parts), sep)

----------------------------------------------------------------------------
(* node:path (posix) and node:os as used by validatePath *)

HomeDir == <<"/", "o">>
Cwd == <<"/", "a">>

IsAbsolute(p) == Len(p) > 0 /\ p[1] = SEP

DOT == <<".">>
DOTDOT == <<".", ".">>

RECURSIVE NormalizeSegments(_, _, _)
NormalizeSegments(segs, res, allowAboveRoot) ==
    IF segs = <<>> THEN res
    ELSE LET s == Head(segs)
             rest == Tail(segs)
         IN IF s = <<>> \/ s = DOT
            THEN NormalizeSegments(rest, res, allowAboveRoot)
            ELSE IF s = DOTDOT
            THEN IF res # <<>> /\ res[Len(res)] # DOTDOT
                 THEN NormalizeSegments(rest, SubSeq(res, 1, Len(res) - 1), allowAboveRoot)
                 ELSE IF allowAboveRoot
                 THEN NormalizeSegments(rest, Append(res, DOTDOT), allowAboveRoot)
                 ELSE NormalizeSegments(rest, res, allowAboveRoot)
            ELSE NormalizeSegments(rest, Append(res, s), allowAboveRoot)

NormalizeString(p, allowAboveRoot) ==
    Join(NormalizeSegments(Split(p, SEP), <<>>, allowAboveRoot), SEP)

PathNormalize(p) ==
    IF Len(p) = 0 THEN DOT
    ELSE LET isAbs == IsAbsolute(p)
             trailingSeparator == p[Len(p)] = SEP
             n == NormalizeString(p, ~isAbs)
         IN IF Len(n) = 0
            THEN IF isAbs THEN <<SEP>>
                 ELSE IF trailingSeparator THEN <<".", SEP>> ELSE DOT
            ELSE LET m == IF trailingSeparator THEN Append(n, SEP) ELSE n
                 IN IF isAbs THEN <<SEP>> \o m ELSE m

PathJoin(a, b) ==
    LET joined == IF Len(a) = 0 THEN b
                  ELSE IF Len(b) = 0 THEN a
                  ELSE a \o <<SEP>> \o b
    IN IF Len(joined) = 0 THEN DOT ELSE PathNormalize(joined)

PathResolve(base, p) ==
    LET resolvedPath == IF IsAbsolute(p) THEN p
                        ELSE IF Len(p) = 0 THEN base
                        ELSE base \o <<SEP>> \o p
    IN <<SEP>> \o NormalizeString(resolvedPath, FALSE)

RECURSIVE LastSepBefore(_, _)
LastSepBefore(p, i) ==
    IF i < 2 THEN 0
    ELSE IF p[i] = SEP THEN i
    ELSE LastSepBefore(p, i - 1)

RECURSIVE SkipTrailingSeps(_, _)
SkipTrailingSeps(p, i) ==
    IF i >= 2 /\ p[i] = SEP THEN SkipTrailingSeps(p, i - 1) ELSE i

PathDirname(p) ==
    IF Len(p) = 0 THEN DOT
    ELSE LET hasRoot == p[1] = SEP
             end == LastSepBefore(p, SkipTrailingSeps(p, Len(p)))
         IN IF end = 0 THEN (IF hasRoot THEN <<SEP>> ELSE DOT)
            ELSE IF hasRoot /\ end = 2 THEN <<SEP, SEP>>
            ELSE SubSeq(p, 1, end - 1)

normalizePath(p) == PathNormalize(p)

expandHome(filepath) ==
    IF StartsWith(filepath, <<"~", "/">>) \/ filepath = <<"~">>
    THEN PathJoin(HomeDir, Slice(filepath, 1))
    ELSE filepath

----------------------------------------------------------------------------
(* The filesystem seen through fs.realpath *)

DirA == <<"/", "a">>
DirA2 == <<"/", "a", "2">>
DirO == <<"/", "o">>

TopDirs == {DirA, DirA2, DirO}
SubNames == {<<"d">>, <<"l">>}
SubNodes == {t \o <<SEP>> \o n : t \in TopDirs, n \in SubNames}
LinkTargets == {DirA, DirO, DirA \o <<"/", "d">>, DirO \o <<"/", "d">>}

NoNode == [type |-> "none", target |-> <<>>]
DirNode == [type |-> "dir", target |-> <<>>]
FileNode == [type |-> "file", target |-> <<>>]
LinkNode(t) == [type |-> "link", target |-> t]

Lookup(fsys, p) == IF p \in DOMAIN fsys THEN fsys[p] ELSE NoNode

NoPath == [ok |-> FALSE, path |-> <<>>]
SomePath(p) == [ok |-> TRUE, path |-> p]

\* Walks the components from the root: a missing component, a component
\* below a regular file, or too many symlink expansions make realpath throw.
RECURSIVE RealpathFrom(_, _, _, _)
RealpathFrom(fsys, cur, rest, fuel) ==
    IF rest = <<>> THEN SomePath(IF cur = <<>> THEN <<SEP>> ELSE cur)
    ELSE LET next == cur \o <<SEP>> \o Head(rest)
             node == Lookup(fsys, next)
         IN CASE node.type = "none" -> NoPath
              [] node.type = "file" ->
                    IF Tail(rest) = <<>> THEN SomePath(next) ELSE NoPath
              [] node.type = "dir" -> RealpathFrom(fsys, next, Tail(rest), fuel)
              [] node.type = "link" ->
                    IF fuel = 0 THEN NoPath
                    ELSE RealpathFrom(fsys, <<>>,
                            NormalizeSegments(Split(node.target, SEP), <<>>, FALSE)
                                \o Tail(rest),
                            fuel - 1)

Realpath(fsys, p) ==
    RealpathFrom(fsys, <<>>, NormalizeSegments(Split(p, SEP), <<>>, FALSE), MaxLinkHops)

----------------------------------------------------------------------------
(* validatePath *)

AccessDeniedOutside == "Access denied - path outside allowed directories"
AccessDeniedSymlink == "Access denied - symlink target outside allowed directories"
AccessDeniedParent == "Access denied - parent directory outside allowed directories"
ParentMissing == "Parent directory does not exist"

Return(v, calls) == [kind |-> "return", value |-> v, message |-> "", realpathCalls |-> calls]
Throw(m, calls) == [kind |-> "throw", value |-> <<>>, message |-> m, realpathCalls |-> calls]
NoOutcome == [kind |-> "none", value |-> <<>>, message |-> "", realpathCalls |-> 0]

IsAllowed(allowed, p) ==
    \E i \in 1..Len(allowed) : StartsWith(p, allowed[i])

Absolute(requested) ==
    LET expandedPath == expandHome(requested)
    IN IF IsAbsolute(expandedPath)
       THEN PathResolve(Cwd, expandedPath)
       ELSE PathResolve(Cwd, expandedPath)

\* A variant that returns the path rebuilt on the canonical parent.
ParentTry_Canonicalized(allowed, fsys, absolute) ==
    LET parentDir == PathDirname(absolute)
        realParentPath == Realpath(fsys, parentDir)
    IN IF ~realParentPath.ok THEN Throw("realpath", 2)
       ELSE IF ~IsAllowed(allowed, normalizePath(realParentPath.path))
       THEN Throw(AccessDeniedParent, 2)
       ELSE Return(realParentPath.path \o Slice(absolute, Len(parentDir)), 2)

\* The body of the inner try: the parent directory of a path that could not
\* be resolved.
ParentTry(allowed, fsys, absolute) ==
    LET parentDir == PathDirname(absolute)
        realParentPath == Realpath(fsys, parentDir)
    IN IF ~realParentPath.ok THEN Throw("realpath", 2)
       ELSE IF ~IsAllowed(allowed, normalizePath(realParentPath.path))
       THEN Throw(AccessDeniedParent, 2)
       ELSE Return(absolute, 2)

\* The outer catch block: whatever the inner try throws is replaced.
ParentCatch(allowed, fsys, absolute) ==
    LET r == ParentTry(allowed, fsys, absolute)
    IN IF r.kind = "throw" THEN Throw(ParentMissing, 2) ELSE r

\* A variant that returns the real path without the prefix check.
RealTry_Unchecked(allowed, fsys, absolute) ==
    LET realPath == Realpath(fsys, absolute)
    IN IF ~realPath.ok THEN Throw("realpath", 1)
       ELSE Return(realPath.path, 1)

\* A variant that returns the requested spelling instead of the real path.
RealTry_ReturnsRequested(allowed, fsys, absolute) ==
    LET realPath == Realpath(fsys, absolute)
    IN IF ~realPath.ok THEN Throw("realpath", 1)
       ELSE IF ~IsAllowed(allowed, normalizePath(realPath.path))
       THEN Throw(AccessDeniedSymlink, 1)
       ELSE Return(absolute, 1)

\* The body of the outer try.
RealTry(allowed, fsys, absolute) ==
    LET realPath == Realpath(fsys, absolute)
    IN IF ~realPath.ok THEN Throw("realpath", 1)
       ELSE IF ~IsAllowed(allowed, normalizePath(realPath.path))
       THEN Throw(AccessDeniedSymlink, 1)
       ELSE Return(realPath.path, 1)

validatePath(allowed, fsys, requested) ==
    LET absolute == Absolute(requested)
        normalizedRequested == normalizePath(absolute)
    IN IF ~IsAllowed(allowed, normalizedRequested)
       THEN Throw(AccessDeniedOutside, 0)
       ELSE LET r == RealTry(allowed, fsys, absolute)
            IN IF r.kind = "throw"
               THEN ParentCatch(allowed, fsys, absolute)
               ELSE r

----------------------------------------------------------------------------
(* The sandbox under a changing filesystem *)

AllowLists == {<<DirA>>, <<DirA2>>, <<DirA, DirA2>>}

NewLeaf == <<"/", "n">>

Requests ==
    TopDirs \cup SubNodes
    \cup {p \o NewLeaf : p \in {DirA, DirA2, DirO}}
    \cup {p \o NewLeaf : p \in {DirA \o <<"/", "l">>, DirO \o <<"/", "l">>, DirA2 \o <<"/", "l">>}}
    \cup { <<"/">>,
           <<"/", "a", "/", ".", ".", "/", "o">>,
           <<"/", "a", "/", ".", ".", "/", "o", "/", "d">>,
           <<"/", "a", "/", ".", "/", "d", "/">>,
           <<"/", "a", "/", "l", "/", "d">>,
           <<"/", "a", "/", "l", "/", ".", ".", "/", "n">>,
           <<"/", "a", "2", "/", ".", ".", "/", "a", "/", "l">>,
           <<"~">>,
           <<"~", "/", "d">>,
           <<"~", "/", "l", "/", "n">>,
           <<"~", "a">>,
           <<>>,
           <<"l">>,
           <<"l", "/", "n">>,
           <<".", ".", "/", "o", "/", "l">>,
           <<".", ".", "/", "a", "2", "/", "d">> }

StartFs == [p \in TopDirs \cup SubNodes |-> IF p \in TopDirs THEN DirNode ELSE NoNode]

NoEditResult == [kind |-> "none", message |-> "", oldText |-> <<>>, value |-> <<>>]

NoSearchOutcome == [kind |-> "none", value |-> <<>>]

NoRequest == [name |-> "", arguments |-> <<>>]
NoResponse == [kind |-> "none", isError |-> FALSE, text |-> <<>>]

InitPath ==
    /\ allowedDirectories \in AllowLists
    /\ fs = StartFs
    /\ requestedPath = <<>>
    /\ outcome = NoOutcome
    /\ disk = <<>>
    /\ diskBefore = <<>>
    /\ edits = <<>>
    /\ dryRun = FALSE
    /\ pc = "idle"
    /\ content = <<>>
    /\ modifiedContent = <<>>
    /\ editIdx = 0
    /\ editResult = NoEditResult
    /\ rootPath = <<>>
    /\ pattern = <<>>
    /\ excludePatterns = <<>>
    /\ unreadable = {}
    /\ stack = <<>>
    /\ results = <<>>
    /\ searchOutcome = NoSearchOutcome
    /\ walked = <<>>
    /\ argv = <<>>
    /\ phase = "idle"
    /\ exitCode = 0
    /\ checked = {}
    /\ handler = "none"
    /\ request = NoRequest
    /\ response = NoResponse
    /\ failure = <<>>
    /\ served = 0
    /\ paths = <<>>
    /\ progress = <<>>
    /\ slotTexts = <<>>
    /\ firstDone = 0
    /\ readResponse = NoResponse
    /\ tool = ""
    /\ toolPath = <<>>
    /\ toolPc = "idle"
    /\ toolValid = NoOutcome
    /\ touched = {}
    /\ validated = {}
    /\ toolOutcome = NoResponse
    /\ fsBefore = fs

NodeCount(fsys) == Cardinality({p \in SubNodes : fsys[p].type # "none"})

\* The host creates a directory, a regular file or a symlink, or removes a
\* node, between two tool calls.
Mkdir(p) ==
    /\ outcome.kind = "none"
    /\ NodeCount(fs) < MaxNodes
    /\ fs[p].type = "none"
    /\ fs' = [fs EXCEPT ![p] = DirNode]
    /\ UNCHANGED <<allowedDirectories, requestedPath, outcome>>

CreateFile(p) ==
    /\ outcome.kind = "none"
    /\ NodeCount(fs) < MaxNodes
    /\ fs[p].type = "none"
    /\ fs' = [fs EXCEPT ![p] = FileNode]
    /\ UNCHANGED <<allowedDirectories, requestedPath, outcome>>

Symlink(p, t) ==
    /\ outcome.kind = "none"
    /\ NodeCount(fs) < MaxNodes
    /\ fs[p].type = "none"
    /\ fs' = [fs EXCEPT ![p] = LinkNode(t)]
    /\ UNCHANGED <<allowedDirectories, requestedPath, outcome>>

Unlink(p) ==
    /\ outcome.kind = "none"
    /\ fs[p].type # "none"
    /\ fs' = [fs EXCEPT ![p] = NoNode]
    /\ UNCHANGED <<allowedDirectories, requestedPath, outcome>>

\* A tool call reaches validatePath with the path argument p.
ValidatePath(p) ==
    /\ outcome.kind = "none"
    /\ requestedPath' = p
    /\ outcome' = validatePath(allowedDirectories, fs, p)
    /\ UNCHANGED <<allowedDirectories, fs>>

\* The result has been handed to the caller; nothing of it is kept.
ValidateDone ==
    /\ outcome.kind # "none"
    /\ requestedPath' = <<>>
    /\ outcome' = NoOutcome
    /\ UNCHANGED <<allowedDirectories, fs>>

NextPath ==
    \/ \E p \in SubNodes : Mkdir(p) /\ UNCHANGED <<editVars, searchVars, serverVars, readVars, toolVars>>
    \/ \E p \in SubNodes : CreateFile(p) /\ UNCHANGED <<editVars, searchVars, serverVars, readVars, toolVars>>
    \/ \E p \in SubNodes, t \in LinkTargets : Symlink(p, t) /\ UNCHANGED <<editVars, searchVars, serverVars, readVars, toolVars>>
    \/ \E p \in SubNodes : Unlink(p) /\ UNCHANGED <<editVars, searchVars, serverVars, readVars, toolVars>>
    \/ \E p \in Requests : ValidatePath(p) /\ UNCHANGED <<editVars, searchVars, serverVars, readVars, toolVars>>
    \/ ValidateDone /\ UNCHANGED <<editVars, searchVars, serverVars, readVars, toolVars>>

SpecPath == InitPath /\ [][NextPath]_vars

----------------------------------------------------------------------------
(* Properties of the sandbox *)

\* Segment-aware containment: p is root itself or lies below it.
Under(p, root) ==
    \/ p = root
    \/ root = <<SEP>> /\ IsAbsolute(p)
    \/ StartsWith(p, root \o <<SEP>>)

UnderAllowList(p) ==
    \E i \in 1..Len(allowedDirectories) : Under(p, allowedDirectories[i])

IsAccessDenied(m) == m \in {AccessDeniedOutside, AccessDeniedSymlink, AccessDeniedParent}

Called == outcome.kind # "none"
ReqAbsolute == Absolute(requestedPath)
ReqNormalized == normalizePath(ReqAbsolute)
ReqReal == Realpath(fs, ReqAbsolute)
ReqParentReal == Realpath(fs, PathDirname(ReqAbsolute))

\* C1: a requested path that, once expanded, made absolute and collapsed,
\* is not under any allow-list entry is refused with the "path outside
\* allowed directories" error before any realpath lookup.
C1_OutsideIsDenied ==
    (Called /\ ~UnderAllowList(ReqNormalized))
        => /\ outcome.kind = "throw"
           /\ outcome.message = AccessDeniedOutside
           /\ outcome.realpathCalls = 0

\* C2: a symlink under an allowed root whose canonical target is outside
\* every allowed root is refused with an access-denied error; no path is
\* returned for it.
C2_EscapingSymlinkDenied ==
    (/\ Called
     /\ Lookup(fs, ReqAbsolute).type = "link"
     /\ UnderAllowList(ReqNormalized)
     /\ ReqReal.ok
     /\ ~UnderAllowList(ReqReal.path))
        => /\ outcome.kind = "throw"
           /\ IsAccessDenied(outcome.message)

\* C3: a path that has an allow-list entry as a string prefix but is a
\* sibling of it, and is under no other entry, is refused with an
\* access-denied error.
C3_SiblingPrefixDenied ==
    (/\ Called
     /\ \E i \in 1..Len(allowedDirectories) :
            /\ StartsWith(ReqNormalized, allowedDirectories[i])
            /\ ~Under(ReqNormalized, allowedDirectories[i])
     /\ ~UnderAllowList(ReqNormalized))
        => /\ outcome.kind = "throw"
           /\ IsAccessDenied(outcome.message)

\* C4: an existing path under an allow-list entry whose canonical form is
\* under an allow-list entry is accepted, and the canonical form is what is
\* returned.
C4_ExistingReturnsCanonical ==
    (/\ Called
     /\ UnderAllowList(ReqNormalized)
     /\ ReqReal.ok
     /\ UnderAllowList(ReqReal.path))
        => /\ outcome.kind = "return"
           /\ outcome.value = ReqReal.path

C4_Witness ==
    /\ Called
    /\ UnderAllowList(ReqNormalized)
    /\ ReqReal.ok
    /\ UnderAllowList(ReqReal.path)
    /\ ReqReal.path # ReqAbsolute
    /\ outcome.kind = "return"
    /\ outcome.value = ReqReal.path

\* C5 as stated: a path that does not exist and whose parent exists with a
\* canonical form under an allow-list entry is accepted and returned in its
\* absolute spelling.
C5_NewPathParentAllowed_Original ==
    (/\ Called
     /\ ~ReqReal.ok
     /\ ReqParentReal.ok
     /\ UnderAllowList(ReqParentReal.path))
        => /\ outcome.kind = "return"
           /\ outcome.value = ReqAbsolute

\* C5 (amended): a path that does not exist, lies lexically under an
\* allow-list entry, and whose parent exists with a canonical form under an
\* allow-list entry is accepted and returned in its absolute spelling, the
\* parent not replaced by its canonical form.
C5_NewPathReturnedUnchanged ==
    (/\ Called
     /\ ~ReqReal.ok
     /\ UnderAllowList(ReqNormalized)
     /\ ReqParentReal.ok
     /\ UnderAllowList(ReqParentReal.path))
        => /\ outcome.kind = "return"
           /\ outcome.value = ReqAbsolute

C5_Witness ==
    /\ Called
    /\ ~ReqReal.ok
    /\ UnderAllowList(ReqNormalized)
    /\ ReqParentReal.ok
    /\ UnderAllowList(ReqParentReal.path)
    /\ ReqParentReal.path # PathDirname(ReqAbsolute)
    /\ outcome.kind = "return"
    /\ outcome.value = ReqAbsolute

\* C6: a path that does not exist, lies lexically under an allow-list entry,
\* and whose parent exists with a canonical form outside every allow-list
\* entry is refused with an access-denied error; the "parent directory does
\* not exist" error is given only when the parent does not exist.
C6_ForeignParentIsAccessDenied ==
    /\ (/\ Called
        /\ ~ReqReal.ok
        /\ UnderAllowList(ReqNormalized)
        /\ ReqParentReal.ok
        /\ ~UnderAllowList(ReqParentReal.path))
           => /\ outcome.kind = "throw"
              /\ IsAccessDenied(outcome.message)
    /\ (Called /\ outcome.kind = "throw" /\ outcome.message = ParentMissing)
           => ~ReqParentReal.ok

HasAllowedPrefix(p) ==
    \E i \in 1..Len(allowedDirectories) :
        /\ Len(p) >= Len(allowedDirectories[i])
        /\ SubSeq(p, 1, Len(allowedDirectories[i])) = allowedDirectories[i]

\* C28: whatever the filesystem, a returned path starts with some
\* allow-list entry: it is either the canonical path, which starts with an
\* entry, or the absolute path as requested, which passed the first prefix
\* check.
C28_ReturnedHasAllowedPrefix ==
    outcome.kind = "return" =>
        /\ HasAllowedPrefix(outcome.value)
        /\ \/ ReqReal.ok /\ outcome.value = ReqReal.path
           \/ outcome.value = ReqAbsolute /\ HasAllowedPrefix(ReqNormalized)

\* An existing path is returned in its requested spelling, its canonical
\* form starting with no entry.
C28_Witness ==
    /\ outcome.kind = "return"
    /\ ReqReal.ok
    /\ ~HasAllowedPrefix(ReqReal.path)
    /\ outcome.value = ReqAbsolute
    /\ HasAllowedPrefix(outcome.value)

----------------------------------------------------------------------------
(* String operations used by applyFileEdits *)

IsSpace(c) == c \in {" ", "\t", "\n", "\r"}

RECURSIVE normalizeLineEndings(_)
normalizeLineEndings(text) ==
    IF text = <<>> THEN <<>>
    ELSE IF Len(text) >= 2 /\ text[1] = "\r" /\ text[2] = "\n"
    THEN <<"\n">> \o normalizeLineEndings(Slice(text, 2))
    ELSE <<text[1]>> \o normalizeLineEndings(Tail(text))

\* Position (from 1) of the first occurrence of sub in s, 0 when there is none.
IndexOf(s, sub) ==
    LET hits == {i \in 1..(Len(s) - Len(sub) + 1) : SubSeq(s, i, i + Len(sub) - 1) = sub}
    IN IF hits = {} THEN 0
       ELSE CHOOSE i \in hits : \A k \in hits : i <= k

Includes(s, sub) == IndexOf(s, sub) # 0

\* The backtick and the single quote, as one-character strings.
BACKTICK == SubSeq("`'", 1, 1)
QUOTE == SubSeq("`'", 2, 2)

\* GetSubstitution of String.prototype.replace for a string pattern (no
\* capture groups): "$$", "$&", "$" with a backtick and "$" with a quote are
\* expanded, any other "$" is literal.

RECURSIVE GetSubstitution(_, _, _, _, _)
GetSubstitution(matched, str, position, replacement, i) ==
    IF i > Len(replacement) THEN <<>>
    ELSE IF replacement[i] = "$" /\ i < Len(replacement)
    THEN LET c == replacement[i + 1]
         IN CASE c = "$" ->
                    <<"$">> \o GetSubstitution(matched, str, position, replacement, i + 2)
              [] c = "&" ->
                    matched \o GetSubstitution(matched, str, position, replacement, i + 2)
              [] c = BACKTICK ->
                    SubSeq(str, 1, position - 1)
                        \o GetSubstitution(matched, str, position, replacement, i + 2)
              [] c = QUOTE ->
                    SubSeq(str, position + Len(matched), Len(str))
                        \o GetSubstitution(matched, str, position, replacement, i + 2)
              [] OTHER ->
                    <<"$">> \o GetSubstitution(matched, str, position, replacement, i + 1)
    ELSE <<replacement[i]>> \o GetSubstitution(matched, str, position, replacement, i + 1)

\* Replacement of the first occurrence by the replacement text, character
\* for character.
Replace_Literal(s, searchValue, replacement) ==
    LET position == IndexOf(s, searchValue)
    IN IF position = 0 THEN s
       ELSE SubSeq(s, 1, position - 1)
                \o replacement
                \o SubSeq(s, position + Len(searchValue), Len(s))

\* String.prototype.replace with a string pattern: first occurrence only.
Replace(s, searchValue, replacement) ==
    LET position == IndexOf(s, searchValue)
    IN IF position = 0 THEN s
       ELSE SubSeq(s, 1, position - 1)
                \o GetSubstitution(searchValue, s, position, replacement, 1)
                \o SubSeq(s, position + Len(searchValue), Len(s))

RECURSIVE LeadingWhitespace(_)
LeadingWhitespace(line) ==
    IF line # <<>> /\ IsSpace(line[1])
    THEN <<line[1]>> \o LeadingWhitespace(Tail(line))
    ELSE <<>>

TrimStart(line) == Slice(line, Len(LeadingWhitespace(line)))

RECURSIVE TrimEnd(_)
TrimEnd(line) ==
    IF line # <<>> /\ IsSpace(line[Len(line)])
    THEN TrimEnd(SubSeq(line, 1, Len(line) - 1))
    ELSE line

Trim(line) == TrimEnd(TrimStart(line))

Repeat(c, n) == [k \in 1..n |-> c]

Max(a, b) == IF a >= b THEN a ELSE b

----------------------------------------------------------------------------
(* applyFileEdits *)

MaxEdits == 2       \* longest edit list of a request

Empty == <<>>
TextA == <<"a">>
TextABA == <<"a", "b", "a">>
TextLines == <<"a", "\n", "b">>
TextIndented == <<" ", "a", "\n", " ", " ", "b", "\n">>
TextCRLF == <<"a", "\r", "\n", "b">>
TextTwoWindows == <<" ", " ", "a", "\n", " ", "a">>
FooBar == <<"f", "o", "o", "\n", "b", "a", "r", "\n">>
IfBlock == <<" ", " ", "i", "f", " ", "(", "x", ")", " ", "{", "\n", " ", " ", " ", " ", "y", "(", ")", ";", "\n", " ", " ", "}", "\n">>
TextDollar == <<"b", " ", "$">>
TextFence == <<BACKTICK, BACKTICK, BACKTICK, "\n", "a", "\n">>
TextTick == <<"a", " ", BACKTICK, BACKTICK>>
TextCRCRLF == <<"a", "\r", "\r", "\n", "b">>

Contents == {Empty, TextA, TextABA, TextLines, TextIndented, TextCRLF, TextTwoWindows, FooBar, IfBlock, TextDollar,
             TextFence, TextTick, TextCRCRLF}

Edit(old, new) == [oldText |-> old, newText |-> new]

IfOld == <<"i", "f", " ", "(", "x", ")", " ", "{", "\n", "y", "(", ")", ";", "\n", "}">>
IfNew == <<"i", "f", " ", "(", "x", ")", " ", "{", "\n", "z", "(", ")", ";", "\n", "}">>

Edits ==
    { Edit(<<"a">>, <<BACKTICK, BACKTICK, BACKTICK, BACKTICK>>),
      Edit(<<"a">>, <<"b">>),
      Edit(<<"b">>, <<"c">>),
      Edit(<<"a">>, <<>>),
      Edit(<<"b">>, <<"$", "$">>),
      Edit(<<"a">>, <<"$", "&", "$", "&">>),
      Edit(<<"a">>, <<"$", BACKTICK, "$", QUOTE, "$">>),
      Edit(<<"a", "\n", "b">>, <<"c", "\n", " ", " ", "d">>),
      Edit(<<" ", "a", "\n", " ", " ", " ", "b">>, <<"c", "\n", " ", " ", "d", "\n", "e">>),
      Edit(<<"z">>, <<"a">>),
      Edit(<<"b", "a", "r">>, <<"b", "a", "z">>),
      Edit(IfOld, IfNew),
      Edit(<<>>, <<"x", "$", "$">>),
      Edit(<<"$">>, <<"b">>),
      Edit(<<"a", "\r", "\n", "b">>, <<"c", "\r", "\n", "d">>),
      Edit(<<"a", " ">>, <<"c">>) }

RECURSIVE SeqsUpTo(_, _)
SeqsUpTo(S, n) ==
    IF n = 0 THEN {<<>>}
    ELSE LET shorter == SeqsUpTo(S, n - 1)
         IN shorter \cup {Append(q, e) : q \in shorter, e \in S}

EditLists == SeqsUpTo(Edits, MaxEdits)

\* First window (from 1) of Len(oldLines) content lines that equals oldLines
\* line by line after trimming, 0 when there is none.
\* A variant that takes the lowest matching window.
FuzzyIndex_Bottommost(contentLines, oldLines) ==
    LET hits == {i \in 1..(Len(contentLines) - Len(oldLines) + 1) :
                    \A j \in 1..Len(oldLines) :
                        Trim(oldLines[j]) = Trim(contentLines[i + j - 1])}
    IN IF hits = {} THEN 0
       ELSE CHOOSE i \in hits : \A k \in hits : i >= k

FuzzyIndex(contentLines, oldLines) ==
    LET hits == {i \in 1..(Len(contentLines) - Len(oldLines) + 1) :
                    \A j \in 1..Len(oldLines) :
                        Trim(oldLines[j]) = Trim(contentLines[i + j - 1])}
    IN IF hits = {} THEN 0
       ELSE CHOOSE i \in hits : \A k \in hits : i <= k

\* A variant that ignores the window's indentation.
FuzzyLine_NoIndent(originalIndent, oldLines, line, j) ==
    line

\* A variant that re-indents every replacement line to the window's
\* indentation.
FuzzyLine_AlwaysReindents(originalIndent, oldLines, line, j) ==
    originalIndent \o TrimStart(line)

\* The j-th replacement line (j from 1) of a fuzzy match.
FuzzyLine(originalIndent, oldLines, line, j) ==
    IF j = 1 THEN originalIndent \o TrimStart(line)
    ELSE LET oldIndent == IF j <= Len(oldLines)
                          THEN LeadingWhitespace(oldLines[j]) ELSE <<>>
             newIndent == LeadingWhitespace(line)
         IN IF oldIndent # <<>> /\ newIndent # <<>>
            THEN originalIndent
                    \o Repeat(" ", Max(0, Len(newIndent) - Len(oldIndent)))
                    \o TrimStart(line)
            ELSE line

Splice(lines, i, n, newLines) ==
    SubSeq(lines, 1, i - 1) \o newLines \o SubSeq(lines, i + n, Len(lines))

Matched(c) == [ok |-> TRUE, content |-> c]
NotMatched(c) == [ok |-> FALSE, content |-> c]

\* One iteration of the edit loop on the accumulated content.
applyEdit(current, edit) ==
    LET normalizedOld == normalizeLineEndings(edit.oldText)
        normalizedNew == normalizeLineEndings(edit.newText)
    IN IF Includes(current, normalizedOld)
       THEN Matched(Replace(current, normalizedOld, normalizedNew))
       ELSE LET oldLines == Split(normalizedOld, "\n")
                contentLines == Split(current, "\n")
                i == FuzzyIndex(contentLines, oldLines)
            IN IF i = 0 THEN NotMatched(current)
               ELSE LET originalIndent == LeadingWhitespace(contentLines[i])
                        newSplit == Split(normalizedNew, "\n")
                        newLines == [j \in 1..Len(newSplit) |->
                                        FuzzyLine(originalIndent, oldLines, newSplit[j], j)]
                    IN Matched(Join(Splice(contentLines, i, Len(oldLines), newLines), "\n"))

----------------------------------------------------------------------------
(* createUnifiedDiff: createTwoFilesPatch of the diff package *)

FilePath == <<"/", "a", "/", "f">>
DiffContext == 4

DigitChars == <<"0", "1", "2", "3", "4", "5", "6", "7", "8", "9">>

RECURSIVE Digits(_)
Digits(n) ==
    IF n < 10 THEN <<DigitChars[n + 1]>>
    ELSE Digits(n \div 10) \o <<DigitChars[(n % 10) + 1]>>

Min(a, b) == IF a <= b THEN a ELSE b

\* The lines of a text, each with its terminator; a last line without
\* terminator is a token of its own.
LineTokens(text) ==
    LET parts == Split(text, "\n")
        n == Len(parts)
        full == [i \in 1..(n - 1) |-> Append(parts[i], "\n")]
    IN IF parts[n] = <<>> THEN full ELSE Append(full, parts[n])

DiffOp(op, line) == [op |-> op, line |-> line]

ChangeCount(script) == Cardinality({i \in 1..Len(script) : script[i].op # " "})

\* A shortest edit script over lines, removals before insertions.
RECURSIVE EditScript(_, _)
EditScript(a, b) ==
    IF a = <<>> THEN [i \in 1..Len(b) |-> DiffOp("+", b[i])]
    ELSE IF b = <<>> THEN [i \in 1..Len(a) |-> DiffOp("-", a[i])]
    ELSE IF a[1] = b[1] THEN <<DiffOp(" ", a[1])>> \o EditScript(Tail(a), Tail(b))
    ELSE LET del == <<DiffOp("-", a[1])>> \o EditScript(Tail(a), b)
             ins == <<DiffOp("+", b[1])>> \o EditScript(a, Tail(b))
         IN IF ChangeCount(del) <= ChangeCount(ins) THEN del ELSE ins

NoNewlineMarker == <<"\\", " ", "N", "o", " ", "n", "e", "w", "l", "i", "n", "e", " ", "a", "t", " ", "e", "n", "d", " ", "o", "f", " ", "f", "i", "l", "e">>

HunkLine(d) ==
    IF d.line # <<>> /\ d.line[Len(d.line)] = "\n"
    THEN <<d.op>> \o d.line
    ELSE <<d.op>> \o d.line \o <<"\n">> \o NoNewlineMarker \o <<"\n">>

RECURSIVE Concat(_)
Concat(texts) ==
    IF texts = <<>> THEN <<>> ELSE Head(texts) \o Concat(Tail(texts))

\* The hunks of a patch. Texts of fewer than 2 * DiffContext + 1 lines give
\* at most one hunk: every change is within the context of the next one.
Hunks(script) ==
    LET changed == {i \in 1..Len(script) : script[i].op # " "}
    IN IF changed = {} THEN <<>>
       ELSE LET first == CHOOSE i \in changed : \A k \in changed : i <= k
                last == CHOOSE i \in changed : \A k \in changed : i >= k
                from == Max(1, first - DiffContext)
                to == Min(Len(script), last + DiffContext)
                oldBefore == Cardinality({i \in 1..(from - 1) : script[i].op # "+"})
                newBefore == Cardinality({i \in 1..(from - 1) : script[i].op # "-"})
                oldLines == Cardinality({i \in from..to : script[i].op # "+"})
                newLines == Cardinality({i \in from..to : script[i].op # "-"})
                oldStart == IF oldLines = 0 THEN oldBefore ELSE oldBefore + 1
                newStart == IF newLines = 0 THEN newBefore ELSE newBefore + 1
            IN <<"@", "@", " ", "-">> \o Digits(oldStart) \o <<",">> \o Digits(oldLines)
                  \o <<" ", "+">> \o Digits(newStart) \o <<",">> \o Digits(newLines)
                  \o <<" ", "@", "@", "\n">>
                  \o Concat([i \in 1..(to - from + 1) |-> HunkLine(script[from + i - 1])])

PatchHeader(fileName, oldHeader, newHeader) ==
    <<"I", "n", "d", "e", "x", ":", " ">> \o fileName \o <<"\n">>
        \o [i \in 1..67 |-> "="] \o <<"\n">>
        \o <<"-", "-", "-", " ">> \o fileName \o <<"\t">> \o oldHeader \o <<"\n">>
        \o <<"+", "+", "+", " ">> \o fileName \o <<"\t">> \o newHeader \o <<"\n">>

createTwoFilesPatch(fileName, oldStr, newStr, oldHeader, newHeader) ==
    PatchHeader(fileName, oldHeader, newHeader)
        \o Hunks(EditScript(LineTokens(oldStr), LineTokens(newStr)))

createUnifiedDiff(originalContent, newContent, filepath) ==
    LET normalizedOriginal == normalizeLineEndings(originalContent)
        normalizedNew == normalizeLineEndings(newContent)
    IN createTwoFilesPatch(filepath, normalizedOriginal, normalizedNew,
                           <<"o", "r", "i", "g", "i", "n", "a", "l">>, <<"m", "o", "d", "i", "f", "i", "e", "d">>)


\* A variant with a fixed fence of three backticks.
NumBackticks_Fixed(diff, n) == n

\* "let numBackticks = 3; while (diff.includes(...)) numBackticks++", from n.
RECURSIVE NumBackticks(_, _)
NumBackticks(diff, n) ==
    IF Includes(diff, Repeat(BACKTICK, n)) THEN NumBackticks(diff, n + 1) ELSE n

formatDiff(diff) ==
    LET fence == Repeat(BACKTICK, NumBackticks(diff, 3))
    IN fence \o <<"d", "i", "f", "f", "\n">> \o diff \o fence \o <<"\n", "\n">>

----------------------------------------------------------------------------
(* applyFileEdits: the call *)

EditNotFound == "Could not find exact match for edit"

InitEdit ==
    /\ allowedDirectories = <<DirA>>
    /\ fs = StartFs
    /\ requestedPath = <<>>
    /\ outcome = NoOutcome
    /\ disk \in Contents
    /\ diskBefore = disk
    /\ edits \in EditLists
    /\ dryRun \in BOOLEAN
    /\ pc = "start"
    /\ content = <<>>
    /\ modifiedContent = <<>>
    /\ editIdx = 0
    /\ editResult = NoEditResult
    /\ rootPath = <<>>
    /\ pattern = <<>>
    /\ excludePatterns = <<>>
    /\ unreadable = {}
    /\ stack = <<>>
    /\ results = <<>>
    /\ searchOutcome = NoSearchOutcome
    /\ walked = <<>>
    /\ argv = <<>>
    /\ phase = "idle"
    /\ exitCode = 0
    /\ checked = {}
    /\ handler = "none"
    /\ request = NoRequest
    /\ response = NoResponse
    /\ failure = <<>>
    /\ served = 0
    /\ paths = <<>>
    /\ progress = <<>>
    /\ slotTexts = <<>>
    /\ firstDone = 0
    /\ readResponse = NoResponse
    /\ tool = ""
    /\ toolPath = <<>>
    /\ toolPc = "idle"
    /\ toolValid = NoOutcome
    /\ touched = {}
    /\ validated = {}
    /\ toolOutcome = NoResponse
    /\ fsBefore = fs

\* A variant that keeps the line endings of the file.
ReadFile_KeepsLineEndings ==
    /\ pc = "start"
    /\ content' = disk
    /\ modifiedContent' = disk
    /\ editIdx' = 0
    /\ pc' = "loop"
    /\ UNCHANGED <<disk, diskBefore, edits, dryRun, editResult>>

\* fs.readFile and the line-ending normalization.
ReadFile ==
    /\ pc = "start"
    /\ content' = normalizeLineEndings(disk)
    /\ modifiedContent' = normalizeLineEndings(disk)
    /\ editIdx' = 0
    /\ pc' = "loop"
    /\ UNCHANGED <<disk, diskBefore, edits, dryRun, editResult>>

\* A variant that matches every edit against the original content.
EditStep_AgainstOriginal ==
    /\ pc = "loop"
    /\ editIdx < Len(edits)
    /\ LET edit == edits[editIdx + 1]
           r == applyEdit(content, edit)
       IN IF r.ok
          THEN /\ modifiedContent' = r.content
               /\ editIdx' = editIdx + 1
               /\ UNCHANGED <<pc, editResult>>
          ELSE /\ editResult' = [kind |-> "throw", message |-> EditNotFound,
                                 oldText |-> edit.oldText, value |-> <<>>]
               /\ pc' = "done"
               /\ UNCHANGED <<modifiedContent, editIdx>>
    /\ UNCHANGED <<disk, diskBefore, edits, dryRun, content>>

\* A variant that saves the file after every edit.
EditStep_WritesEachEdit ==
    /\ pc = "loop"
    /\ editIdx < Len(edits)
    /\ LET edit == edits[editIdx + 1]
           r == applyEdit(modifiedContent, edit)
       IN IF r.ok
          THEN /\ modifiedContent' = r.content
               /\ editIdx' = editIdx + 1
               /\ disk' = IF dryRun THEN disk ELSE r.content
               /\ UNCHANGED <<pc, editResult>>
          ELSE /\ editResult' = [kind |-> "throw", message |-> EditNotFound,
                                 oldText |-> edit.oldText, value |-> <<>>]
               /\ pc' = "done"
               /\ UNCHANGED <<modifiedContent, editIdx, disk>>
    /\ UNCHANGED <<diskBefore, edits, dryRun, content>>

\* One iteration of "for (const edit of edits)".
EditStep ==
    /\ pc = "loop"
    /\ editIdx < Len(edits)
    /\ LET edit == edits[editIdx + 1]
           r == applyEdit(modifiedContent, edit)
       IN IF r.ok
          THEN /\ modifiedContent' = r.content
               /\ editIdx' = editIdx + 1
               /\ UNCHANGED <<pc, editResult>>
          ELSE /\ editResult' = [kind |-> "throw", message |-> EditNotFound,
                                 oldText |-> edit.oldText, value |-> <<>>]
               /\ pc' = "done"
               /\ UNCHANGED <<modifiedContent, editIdx>>
    /\ UNCHANGED <<disk, diskBefore, edits, dryRun, content>>

\* A variant that saves the file whatever dryRun says.
Finish_AlwaysWrites ==
    /\ pc = "loop"
    /\ editIdx = Len(edits)
    /\ disk' = modifiedContent
    /\ editResult' = [kind |-> "return", message |-> "", oldText |-> <<>>,
                      value |-> formatDiff(createUnifiedDiff(content, modifiedContent,
                                                             FilePath))]
    /\ pc' = "done"
    /\ UNCHANGED <<diskBefore, edits, dryRun, content, modifiedContent, editIdx>>

\* After the loop: the file is written unless dryRun, and the call returns.
Finish ==
    /\ pc = "loop"
    /\ editIdx = Len(edits)
    /\ disk' = IF dryRun THEN disk ELSE modifiedContent
    /\ editResult' = [kind |-> "return", message |-> "", oldText |-> <<>>,
                      value |-> formatDiff(createUnifiedDiff(content, modifiedContent,
                                                             FilePath))]
    /\ pc' = "done"
    /\ UNCHANGED <<diskBefore, edits, dryRun, content, modifiedContent, editIdx>>

NextEdit ==
    \/ ReadFile /\ UNCHANGED <<pathVars, searchVars, serverVars, readVars, toolVars>>
    \/ EditStep /\ UNCHANGED <<pathVars, searchVars, serverVars, readVars, toolVars>>
    \/ Finish /\ UNCHANGED <<pathVars, searchVars, serverVars, readVars, toolVars>>

SpecEdit == InitEdit /\ [][NextEdit]_vars

----------------------------------------------------------------------------
(* Properties of the patch engine *)

\* The content after the edits of es, applied in order while they match.
RECURSIVE FoldEdits(_, _)
FoldEdits(c, es) ==
    IF es = <<>> THEN c
    ELSE LET r == applyEdit(c, Head(es))
         IN IF r.ok THEN FoldEdits(r.content, Tail(es)) ELSE c

\* oldText occurs in c verbatim or as a window of trimmed lines.
MatchesText(c, oldText) ==
    LET o == normalizeLineEndings(oldText)
    IN \/ Includes(c, o)
       \/ FuzzyIndex(Split(c, "\n"), Split(o, "\n")) # 0

Before(k) == FoldEdits(content, SubSeq(edits, 1, k - 1))

\* Index of the first edit that does not match the content accumulated
\* before it, 0 when every edit matches.
FirstUnmatched ==
    LET bad == {k \in 1..Len(edits) :
                    /\ \A h \in 1..(k - 1) : MatchesText(Before(h), edits[h].oldText)
                    /\ ~MatchesText(Before(k), edits[k].oldText)}
    IN IF bad = {} THEN 0 ELSE CHOOSE k \in bad : TRUE

\* C7: the edits are applied in list order, each against the content left
\* by the edits before it: the accumulator is the fold of the edits applied
\* so far, every applied edit matched the accumulated content, and a failing
\* edit is one that does not match the accumulated content.
C7_EditsFoldInOrder ==
    pc \in {"loop", "done"} =>
        /\ modifiedContent = FoldEdits(content, SubSeq(edits, 1, editIdx))
        /\ \A k \in 1..editIdx : MatchesText(Before(k), edits[k].oldText)
        /\ editResult.kind = "throw" =>
                /\ editIdx < Len(edits)
                /\ ~MatchesText(modifiedContent, edits[editIdx + 1].oldText)
        /\ editResult.kind = "return" => editIdx = Len(edits)

C7_Witness ==
    /\ pc = "done"
    /\ editResult.kind = "return"
    /\ editIdx = 2
    /\ ~MatchesText(content, edits[2].oldText)
    /\ MatchesText(Before(2), edits[2].oldText)

\* C8: when the LF-normalized oldText occurs verbatim in the current
\* content, the edit replaces exactly its first occurrence by the
\* LF-normalized newText, character for character, whatever newText is.
C8_ExactReplacesLiterally ==
    [][(/\ pc = "loop"
        /\ editIdx' = editIdx + 1
        /\ Includes(modifiedContent, normalizeLineEndings(edits[editIdx + 1].oldText)))
          => modifiedContent' =
                Replace_Literal(modifiedContent,
                                normalizeLineEndings(edits[editIdx + 1].oldText),
                                normalizeLineEndings(edits[editIdx + 1].newText))]_vars

IfBlockKept == <<" ", " ", "i", "f", " ", "(", "x", ")", " ", "{", "\n",
                 " ", " ", " ", " ", "z", "(", ")", ";", "\n",
                 " ", " ", "}", "\n">>
IfBlockFirstOnly == <<" ", " ", "i", "f", " ", "(", "x", ")", " ", "{", "\n",
                      "z", "(", ")", ";", "\n",
                      "}", "\n">>

IfCase ==
    /\ pc = "done"
    /\ content = IfBlock
    /\ edits = <<Edit(IfOld, IfNew)>>

\* C9 as stated: on the if-block example the fuzzy match keeps the
\* indentation of every replaced line (2, 4 and 2 spaces).
C9_IndentationKept_Original ==
    IfCase => /\ editResult.kind = "return"
              /\ modifiedContent = IfBlockKept

\* C9 (amended): on the if-block example the window is found by trimmed
\* comparison and only the first replaced line gets the window's 2-space
\* indentation; the other lines are the newText lines as given.
C9_FirstLineIndentOnly ==
    IfCase => /\ editResult.kind = "return"
              /\ modifiedContent = IfBlockFirstOnly

C9_Witness ==
    /\ IfCase
    /\ ~Includes(content, IfOld)
    /\ FuzzyIndex(Split(content, "\n"), Split(IfOld, "\n")) = 1
    /\ editResult.kind = "return"

\* C10: when some edit matches neither verbatim nor by trimmed line window
\* in the content accumulated so far, the call fails with EditNotFound
\* carrying that oldText, no later edit is applied and nothing is written:
\* the file on disk is what it was before the call.
C10_UnmatchedEditAborts ==
    /\ editResult.kind = "throw" =>
            /\ pc = "done"
            /\ editResult.message = EditNotFound
            /\ editIdx < Len(edits)
            /\ editResult.oldText = edits[editIdx + 1].oldText
            /\ ~MatchesText(modifiedContent, edits[editIdx + 1].oldText)
            /\ disk = diskBefore
    /\ (pc = "done" /\ FirstUnmatched # 0) =>
            /\ editResult.kind = "throw"
            /\ editIdx = FirstUnmatched - 1
            /\ editResult.oldText = edits[FirstUnmatched].oldText
            /\ modifiedContent = Before(FirstUnmatched)
            /\ disk = diskBefore

C10_Witness ==
    /\ pc = "done"
    /\ editResult.kind = "throw"
    /\ editIdx >= 1
    /\ ~dryRun
    /\ modifiedContent # content
    /\ disk = diskBefore


Returned == pc = "done" /\ editResult.kind = "return"

NormalizedBefore == normalizeLineEndings(diskBefore)

\* C11: when every edit matches, a dry run leaves the file as it was, a
\* real run leaves the final accumulated content in the file, and the text
\* returned is the fenced diff of the starting content and the edits alone,
\* the same under either value of dryRun.
C11_DryRunWritesNothing ==
    Returned =>
        /\ editResult.value =
               formatDiff(createUnifiedDiff(NormalizedBefore,
                                            FoldEdits(NormalizedBefore, edits), FilePath))
        /\ dryRun => disk = diskBefore
        /\ ~dryRun => disk = FoldEdits(NormalizedBefore, edits)

C11_Witness ==
    /\ Returned
    /\ dryRun
    /\ edits # <<>>
    /\ modifiedContent # content
    /\ disk = diskBefore
    /\ Includes(editResult.value, <<"@", "@">>)

HasHunk(text) == Includes(text, <<"@", "@", " ", "-">>)

\* C12 as stated: with an empty edit list the call returns a diff without
\* hunks and the file is as it was, whatever the content and dryRun.
C12_EmptyEditsKeepFile_Original ==
    (pc = "done" /\ edits = <<>>) =>
        /\ editResult.kind = "return"
        /\ ~HasHunk(editResult.value)
        /\ disk = diskBefore

\* C12: with an empty edit list the call returns a diff without hunks; a
\* dry run leaves the file as it was, and a real run leaves the content
\* with every CRLF replaced by LF, which is the content as it was when it
\* has no CRLF.
C12_EmptyEditsKeepFileUpToLineEndings ==
    (pc = "done" /\ edits = <<>>) =>
        /\ editResult.kind = "return"
        /\ ~HasHunk(editResult.value)
        /\ disk = IF dryRun THEN diskBefore ELSE NormalizedBefore
        /\ ~Includes(diskBefore, <<"\r", "\n">>) => disk = diskBefore

C12_Witness ==
    /\ pc = "done"
    /\ edits = <<>>
    /\ ~dryRun
    /\ Includes(diskBefore, <<"\r", "\n">>)
    /\ disk = NormalizedBefore
    /\ disk # diskBefore

\* Length of the longest run of consecutive backticks in a text.
LongestRun(text) ==
    LET runs == {n \in 0..Len(text) : Includes(text, Repeat(BACKTICK, n))}
    IN CHOOSE n \in runs : \A m \in runs : m <= n

Fenced(diff, n) ==
    Repeat(BACKTICK, n) \o <<"d", "i", "f", "f", "\n">> \o diff
        \o Repeat(BACKTICK, n) \o <<"\n", "\n">>

DiffBody == createUnifiedDiff(content, modifiedContent, FilePath)

\* C13 as stated: the opening and the closing fence are both one backtick
\* longer than the longest run of backticks in the diff body.
C13_FenceOneLonger_Original ==
    Returned => editResult.value = Fenced(DiffBody, LongestRun(DiffBody) + 1)

\* C13: the opening and the closing fence have the same length, which is
\* one more than the longest run of backticks in the diff body and never
\* less than three.
C13_FenceOneLongerAtLeastThree ==
    Returned => editResult.value = Fenced(DiffBody, Max(3, LongestRun(DiffBody) + 1))

C13_Witness ==
    /\ Returned
    /\ LongestRun(DiffBody) >= 3
    /\ editResult.value = Fenced(DiffBody, LongestRun(DiffBody) + 1)


\* The windows of as many content lines as oldText has lines in which
\* every line equals the oldText line once both are trimmed.
Windows(lines, oldLines) ==
    {i \in 1..Len(lines) :
        /\ i + Len(oldLines) - 1 <= Len(lines)
        /\ \A j \in 1..Len(oldLines) : Trim(lines[i + j - 1]) = Trim(oldLines[j])}

Topmost(W) == CHOOSE i \in W : \A k \in W : i <= k

LastLines(lines, n) == SubSeq(lines, Len(lines) - n + 1, Len(lines))

EditFails == editResult'.kind = "throw" /\ editResult'.message = EditNotFound

\* What C23 says of one iteration on content c with the LF-normalized
\* oldText o and newText n.
FuzzyOnlyWithoutVerbatim(c, o, n) ==
    LET lines == Split(c, "\n")
        oldLines == Split(o, "\n")
        W == Windows(lines, oldLines)
    IN IF Includes(c, o)
       THEN /\ editIdx' = editIdx + 1
            /\ modifiedContent' = Replace(c, o, n)
       ELSE IF W = {} THEN EditFails
       ELSE LET i == Topmost(W)
                after == Split(modifiedContent', "\n")
                below == Len(lines) - (i + Len(oldLines) - 1)
            IN /\ editIdx' = editIdx + 1
               /\ Len(after) = (i - 1) + Len(Split(n, "\n")) + below
               /\ SubSeq(after, 1, i - 1) = SubSeq(lines, 1, i - 1)
               /\ LastLines(after, below) = LastLines(lines, below)

\* C23: the fuzzy match is used only when the LF-normalized oldText does not
\* occur verbatim; it replaces the topmost window of trimmed-equal lines and
\* leaves the lines above and below it (lower windows included) as they
\* were; when no window matches, as when oldText has more lines than the
\* content, the edit fails with EditNotFound.
C23_FuzzyTopmostWindow ==
    [][(pc = "loop" /\ editIdx < Len(edits)) =>
          /\ FuzzyOnlyWithoutVerbatim(modifiedContent,
                normalizeLineEndings(edits[editIdx + 1].oldText),
                normalizeLineEndings(edits[editIdx + 1].newText))
          /\ (/\ ~Includes(modifiedContent,
                           normalizeLineEndings(edits[editIdx + 1].oldText))
              /\ Len(Split(normalizeLineEndings(edits[editIdx + 1].oldText), "\n"))
                    > Len(Split(modifiedContent, "\n")))
                => EditFails]_vars

\* The trailing-space oldText matches both lines of the two-window text only
\* after trimming; the upper line was replaced and the lower one kept.
C23_Witness ==
    /\ pc = "done"
    /\ editResult.kind = "return"
    /\ content = TextTwoWindows
    /\ edits = <<Edit(<<"a", " ">>, <<"c">>)>>
    /\ ~Includes(content, edits[1].oldText)
    /\ Windows(Split(content, "\n"), Split(edits[1].oldText, "\n")) = {1, 2}
    /\ modifiedContent = <<" ", " ", "c", "\n", " ", "a">>

\* The replacement line C24 prescribes for newText line j in a window
\* whose first line has the indentation base.
IndentedLine(base, oldLines, newLines, j) ==
    IF j = 1 THEN base \o TrimStart(newLines[1])
    ELSE IF /\ j <= Len(oldLines)
            /\ LeadingWhitespace(oldLines[j]) # <<>>
            /\ LeadingWhitespace(newLines[j]) # <<>>
    THEN base
            \o Repeat(" ", Max(0, Len(LeadingWhitespace(newLines[j]))
                                    - Len(LeadingWhitespace(oldLines[j]))))
            \o TrimStart(newLines[j])
    ELSE newLines[j]

FuzzyIndentation(c, o, n) ==
    LET lines == Split(c, "\n")
        oldLines == Split(o, "\n")
        newLines == Split(n, "\n")
        W == Windows(lines, oldLines)
    IN (~Includes(c, o) /\ W # {}) =>
          LET i == Topmost(W)
              after == Split(modifiedContent', "\n")
          IN /\ Len(after) >= i - 1 + Len(newLines)
             /\ \A j \in 1..Len(newLines) :
                   after[i - 1 + j] =
                      IndentedLine(LeadingWhitespace(lines[i]), oldLines, newLines, j)

\* C24: in a fuzzy replacement the first line is the window's first-line
\* indentation followed by the new line stripped of its own; a later line j
\* whose oldText line and newText line both start with whitespace is the
\* window's indentation, max(0, new indent - old indent) spaces and the
\* stripped new line; any other later line is the new line as given.
C24_FuzzyIndentation ==
    [][(pc = "loop" /\ editIdx < Len(edits)) =>
          FuzzyIndentation(modifiedContent,
                normalizeLineEndings(edits[editIdx + 1].oldText),
                normalizeLineEndings(edits[editIdx + 1].newText))]_vars

\* All three cases in one replacement: the first line re-indented, the
\* second with both indentations present, the third without an oldText line.
C24_Witness ==
    /\ pc = "done"
    /\ editResult.kind = "return"
    /\ content = TextIndented
    /\ edits = <<Edit(<<" ", "a", "\n", " ", " ", " ", "b">>,
                      <<"c", "\n", " ", " ", "d", "\n", "e">>)>>
    /\ ~Includes(content, edits[1].oldText)
    /\ modifiedContent = <<" ", "c", "\n", " ", "d", "\n", "e", "\n">>

CRLF == <<"\r", "\n">>

\* C27: normalization removes every CR-LF: the content read, the content
\* diffed and the content written hold no CR-LF sequence, and normalizing
\* the normalized content gives it back unchanged.
C27_OutputUsesLF ==
    /\ pc # "start" =>
          /\ ~Includes(content, CRLF)
          /\ normalizeLineEndings(content) = content
    /\ Returned =>
          /\ ~Includes(modifiedContent, CRLF)
          /\ ~dryRun => ~Includes(disk, CRLF)

EmptyOldTextNext ==
    /\ pc = "loop"
    /\ editIdx < Len(edits)
    /\ edits[editIdx + 1].oldText = <<>>

\* C30: an edit with an empty oldText never fails: whatever the current
\* content, the empty content included, it matches verbatim and the result
\* is the newText followed by the current content.
C30_EmptyOldTextInsertsAtStart ==
    [][EmptyOldTextNext =>
          /\ editResult'.kind # "throw"
          /\ editIdx' = editIdx + 1
          /\ modifiedContent' =
                normalizeLineEndings(edits[editIdx + 1].newText) \o modifiedContent]_vars

----------------------------------------------------------------------------
(* minimatch as used by searchFiles: literal characters, "*" inside a     *)
(* segment and "**" as a whole segment, with the option dot: true          *)

STAR == "*"
GLOBSTAR == <<STAR, STAR>>

UpperChars == <<"A", "B", "C", "D", "E", "F", "G", "H", "I", "J", "K", "L", "M",
               "N", "O", "P", "Q", "R", "S", "T", "U", "V", "W", "X", "Y", "Z">>
LowerChars == <<"a", "b", "c", "d", "e", "f", "g", "h", "i", "j", "k", "l", "m",
               "n", "o", "p", "q", "r", "s", "t", "u", "v", "w", "x", "y", "z">>

ToLowerChar(c) ==
    IF \E i \in 1..Len(UpperChars) : UpperChars[i] = c
    THEN LowerChars[CHOOSE i \in 1..Len(UpperChars) : UpperChars[i] = c]
    ELSE c

toLowerCase(s) == [i \in 1..Len(s) |-> ToLowerChar(s[i])]

\* One path segment against one pattern segment.
RECURSIVE SegmentMatch(_, _)
SegmentMatch(pat, name) ==
    IF pat = <<>> THEN name = <<>>
    ELSE IF Head(pat) = STAR
    THEN \E k \in 0..Len(name) : SegmentMatch(Tail(pat), SubSeq(name, k + 1, Len(name)))
    ELSE /\ name # <<>>
         /\ Head(name) = Head(pat)
         /\ SegmentMatch(Tail(pat), Tail(name))

\* matchOne: the segments of the path against the segments of the pattern.
\* A path that ends before the pattern does is no match, also when what is
\* left of the pattern is "**".
RECURSIVE MatchOne(_, _)
MatchOne(file, pat) ==
    IF pat = <<>> THEN file = <<>>
    ELSE IF file = <<>> THEN FALSE
    ELSE IF Head(pat) = GLOBSTAR
    THEN IF Tail(pat) = <<>>
         THEN \A i \in 1..Len(file) : file[i] \notin {DOT, DOTDOT}
         ELSE \E k \in 0..(Len(file) - 1) :
                  /\ \A i \in 1..k : file[i] \notin {DOT, DOTDOT}
                  /\ MatchOne(SubSeq(file, k + 1, Len(file)), Tail(pat))
    ELSE /\ SegmentMatch(Head(pat), Head(file))
         /\ MatchOne(Tail(file), Tail(pat))

minimatch(p, globPattern) == MatchOne(Split(p, SEP), Split(globPattern, SEP))

----------------------------------------------------------------------------
(* searchFiles *)

NameA == <<"a">>
NameB == <<"b">>
NameL == <<"l">>
NameModules == <<"n", "o", "d", "e", "_", "m", "o", "d", "u", "l", "e", "s">>
NameText == <<"x", ".", "t", "x", "t">>
NameUpper == <<"X", ".", "T", "X", "T">>

\* The names a directory listing can hold, in listing order.
EntryNames == <<NameA, NameB, NameL, NameModules, NameText, NameUpper>>

Child(dir, name) == dir \o <<SEP>> \o name

DirAA == Child(DirA, NameA)
DirAAB == Child(DirAA, NameB)
Modules == Child(DirAAB, NameModules)
ModulesText == Child(Modules, NameText)
UpperText == Child(DirA, NameUpper)
LinkL == Child(DirA, NameL)
OutsideText == Child(DirO, NameText)
Dangling == Child(DirA, <<"z">>)

\* The trees searched: /a is the allowed root and /o lies outside.
SearchTrees ==
    { (DirA :> DirNode) @@ (DirO :> DirNode) @@ (OutsideText :> FileNode)
        @@ (DirAA :> DirNode) @@ (DirAAB :> DirNode)
        @@ (Modules :> m) @@ (ModulesText :> x) @@ (UpperText :> u) @@ (LinkL :> l) :
        m \in {DirNode, FileNode, NoNode},
        x \in {FileNode, NoNode},
        u \in {FileNode, NoNode},
        l \in {NoNode, DirNode, LinkNode(DirO), LinkNode(DirAA), LinkNode(Dangling),
               LinkNode(DirA)} }

UnreadableSets == {{}, {DirAAB}, {DirA}}

RootRequests == {DirA, DirAA, LinkL, UpperText}

Patterns == {<<>>, <<"x">>, <<"l">>, <<".", "T", "x", "t">>}

ExcludeLists == {<<>>, <<NameModules>>, <<NameB, NameL>>, <<<<"*", ".", "t", "x", "t">>>>,
                 <<<<"*", "*", "/", "*", ".", "t", "x", "t">>>>}

\* fs.readdir(p, {withFileTypes: true}): the names below the directory p
\* resolves to; it throws when p is no directory or cannot be listed.
Readdir(fsys, locked, p) ==
    LET real == Realpath(fsys, p)
    IN IF ~real.ok \/ Lookup(fsys, real.path).type # "dir" \/ real.path \in locked
       THEN [ok |-> FALSE, dir |-> <<>>, entries |-> <<>>]
       ELSE [ok |-> TRUE, dir |-> real.path,
             entries |-> SelectSeq(EntryNames,
                             LAMBDA n : Lookup(fsys, Child(real.path, n)).type # "none")]

\* path.relative(rootPath, fullPath) for a fullPath below rootPath.
PathRelative(from, to) == Slice(to, Len(from) + 1)

\* A variant that hands a bare exclude pattern to minimatch as it is.
GlobPattern_Bare(exclude) == exclude

GlobPattern(exclude) ==
    IF Includes(exclude, <<STAR>>) THEN exclude
    ELSE GLOBSTAR \o <<SEP>> \o exclude \o <<SEP>> \o GLOBSTAR

ShouldExclude(excludes, relativePath) ==
    \E i \in 1..Len(excludes) : minimatch(relativePath, GlobPattern(excludes[i]))

\* A variant that compares the name as it is spelled.
NameMatches_CaseSensitive(name, pat) == Includes(name, pat)

NameMatches(name, pat) == Includes(toLowerCase(name), toLowerCase(pat))

\* A variant that takes a symlink to a directory for a directory, as
\* fs.stat would.
IsDirectoryEntry_FollowsLinks(fsys, dir, name) ==
    LET real == Realpath(fsys, Child(dir, name))
    IN real.ok /\ Lookup(fsys, real.path).type = "dir"

\* entry.isDirectory() of a Dirent: the type of the entry itself, a symlink
\* not followed.
IsDirectoryEntry(fsys, dir, name) == Lookup(fsys, Child(dir, name)).type = "dir"

Listed(p) == [op |-> "readdir", path |-> p]
Visited(p) == [op |-> "entry", path |-> p]

Frame(path, dir, entries) == [path |-> path, dir |-> dir, entries |-> entries, next |-> 1]

InitSearch ==
    /\ allowedDirectories = <<DirA>>
    /\ fs \in SearchTrees
    /\ requestedPath = <<>>
    /\ outcome = NoOutcome
    /\ disk = <<>>
    /\ diskBefore = <<>>
    /\ edits = <<>>
    /\ dryRun = FALSE
    /\ pc = "idle"
    /\ content = <<>>
    /\ modifiedContent = <<>>
    /\ editIdx = 0
    /\ editResult = NoEditResult
    /\ unreadable \in UnreadableSets
    /\ rootPath \in {validatePath(allowedDirectories, fs, r).value :
                        r \in {q \in RootRequests :
                                  validatePath(allowedDirectories, fs, q).kind = "return"}}
    /\ pattern \in Patterns
    /\ excludePatterns \in ExcludeLists
    /\ stack = <<>>
    /\ results = <<>>
    /\ searchOutcome = [kind |-> "called", value |-> <<>>]
    /\ walked = <<>>
    /\ argv = <<>>
    /\ phase = "idle"
    /\ exitCode = 0
    /\ checked = {}
    /\ handler = "none"
    /\ request = NoRequest
    /\ response = NoResponse
    /\ failure = <<>>
    /\ served = 0
    /\ paths = <<>>
    /\ progress = <<>>
    /\ slotTexts = <<>>
    /\ firstDone = 0
    /\ readResponse = NoResponse
    /\ tool = ""
    /\ toolPath = <<>>
    /\ toolPc = "idle"
    /\ toolValid = NoOutcome
    /\ touched = {}
    /\ validated = {}
    /\ toolOutcome = NoResponse
    /\ fsBefore = fs

\* "await search(rootPath)": the listing of the root is outside every try.
StartSearch ==
    /\ searchOutcome.kind = "called"
    /\ LET listing == Readdir(fs, unreadable, rootPath)
       IN IF listing.ok
          THEN /\ stack' = <<Frame(rootPath, listing.dir, listing.entries)>>
               /\ searchOutcome' = [kind |-> "walking", value |-> <<>>]
          ELSE /\ stack' = <<>>
               /\ searchOutcome' = [kind |-> "throw", value |-> <<>>]
    /\ walked' = Append(walked, Listed(rootPath))
    /\ UNCHANGED <<rootPath, pattern, excludePatterns, unreadable, results>>

Advance(frames) ==
    [frames EXCEPT ![Len(frames)].next = frames[Len(frames)].next + 1]

\* One turn of the for loop: the try block for the next entry, with the
\* catch that goes on to the next entry.
VisitEntry ==
    /\ searchOutcome.kind = "walking"
    /\ stack # <<>>
    /\ LET top == stack[Len(stack)]
       IN /\ top.next <= Len(top.entries)
          /\ LET name == top.entries[top.next]
                 fullPath == PathJoin(top.path, name)
                 valid == validatePath(allowedDirectories, fs, fullPath)
                 relativePath == PathRelative(rootPath, fullPath)
                 isDirectory == IsDirectoryEntry(fs, top.dir, name)
                 listing == Readdir(fs, unreadable, fullPath)
             IN IF valid.kind = "throw" \/ ShouldExclude(excludePatterns, relativePath)
                THEN /\ stack' = Advance(stack)
                     /\ results' = results
                     /\ walked' = Append(walked, Visited(fullPath))
                ELSE /\ results' = IF NameMatches(name, pattern)
                                   THEN Append(results, fullPath)
                                   ELSE results
                     /\ stack' = IF isDirectory /\ listing.ok
                                 THEN Append(Advance(stack),
                                             Frame(fullPath, listing.dir, listing.entries))
                                 ELSE Advance(stack)
                     /\ walked' = IF isDirectory
                                  THEN walked \o <<Visited(fullPath), Listed(fullPath)>>
                                  ELSE Append(walked, Visited(fullPath))
    /\ UNCHANGED <<rootPath, pattern, excludePatterns, unreadable, searchOutcome>>

\* The for loop of a search() call is over: back to the caller.
LeaveDirectory ==
    /\ searchOutcome.kind = "walking"
    /\ stack # <<>>
    /\ stack[Len(stack)].next > Len(stack[Len(stack)].entries)
    /\ stack' = SubSeq(stack, 1, Len(stack) - 1)
    /\ UNCHANGED <<rootPath, pattern, excludePatterns, unreadable, results, searchOutcome,
                   walked>>

\* UTF-16 code units of the characters that occur in the paths searched.
CodeUnit(c) ==
    IF \E i \in 1..Len(UpperChars) : UpperChars[i] = c
    THEN 64 + (CHOOSE i \in 1..Len(UpperChars) : UpperChars[i] = c)
    ELSE IF \E i \in 1..Len(LowerChars) : LowerChars[i] = c
    THEN 96 + (CHOOSE i \in 1..Len(LowerChars) : LowerChars[i] = c)
    ELSE CASE c = "." -> 46 [] c = SEP -> 47 [] c = "_" -> 95 [] OTHER -> 0

\* The order of Array.prototype.sort without a comparator.
RECURSIVE Precedes(_, _)
Precedes(s, t) ==
    IF s = <<>> THEN t # <<>>
    ELSE IF t = <<>> THEN FALSE
    ELSE IF s[1] = t[1] THEN Precedes(Tail(s), Tail(t))
    ELSE CodeUnit(s[1]) < CodeUnit(t[1])

\* A variant that returns results.sort().
ReturnResults_Sorted ==
    /\ searchOutcome.kind = "walking"
    /\ stack = <<>>
    /\ searchOutcome' = [kind |-> "return", value |-> SortSeq(results, Precedes)]
    /\ UNCHANGED <<rootPath, pattern, excludePatterns, unreadable, stack, results, walked>>

\* "return results".
ReturnResults ==
    /\ searchOutcome.kind = "walking"
    /\ stack = <<>>
    /\ searchOutcome' = [kind |-> "return", value |-> results]
    /\ UNCHANGED <<rootPath, pattern, excludePatterns, unreadable, stack, results, walked>>

NextSearch ==
    \/ StartSearch /\ UNCHANGED <<pathVars, editVars, serverVars, readVars, toolVars>>
    \/ VisitEntry /\ UNCHANGED <<pathVars, editVars, serverVars, readVars, toolVars>>
    \/ LeaveDirectory /\ UNCHANGED <<pathVars, editVars, serverVars, readVars, toolVars>>
    \/ ReturnResults /\ UNCHANGED <<pathVars, editVars, serverVars, readVars, toolVars>>

SpecSearch == InitSearch /\ [][NextSearch]_vars

\* Every await of the walk (readdir, validatePath) settles, so each step of
\* the walk is taken once it stays possible: weak fairness of the four
\* actions. For StartSearch and VisitEntry, whose bodies are total, weak
\* fairness is written out with the guard in the place of ENABLED.
CanStart == searchOutcome.kind = "called"

CanVisit ==
    /\ searchOutcome.kind = "walking"
    /\ stack # <<>>
    /\ stack[Len(stack)].next <= Len(stack[Len(stack)].entries)

restOfSearch == <<pathVars, editVars, serverVars, readVars, toolVars>>

SpecSearchLive ==
    /\ InitSearch
    /\ [][NextSearch]_vars
    /\ WF_vars(LeaveDirectory /\ UNCHANGED restOfSearch)
    /\ WF_vars(ReturnResults /\ UNCHANGED restOfSearch)
    /\ ([]<>~CanStart \/ []<><<StartSearch /\ UNCHANGED restOfSearch>>_vars)
    /\ ([]<>~CanVisit \/ []<><<VisitEntry /\ UNCHANGED restOfSearch>>_vars)


----------------------------------------------------------------------------
(* Properties of the search *)

InResults(p) == \E i \in 1..Len(results) : results[i] = p

IsBare(exclude) == ~Includes(exclude, <<STAR>>)

\* The segments of a collected path below the root, the last one left out.
InnerSegments(p) ==
    LET segments == Split(PathRelative(rootPath, p), SEP)
    IN {segments[k] : k \in 1..(Len(segments) - 1)}

\* C14: no collected path has a bare exclude pattern as a segment below
\* the root that is followed by another segment, whatever the name pattern.
C14_ExcludedSegmentNeverReturned ==
    \A i \in 1..Len(results), j \in 1..Len(excludePatterns) :
        IsBare(excludePatterns[j]) => excludePatterns[j] \notin InnerSegments(results[i])

C14_Witness ==
    /\ searchOutcome.kind = "return"
    /\ rootPath = DirA
    /\ pattern = <<>>
    /\ excludePatterns = <<NameModules>>
    /\ fs[Modules].type = "dir"
    /\ fs[ModulesText].type = "file"
    /\ unreadable = {}
    /\ InResults(Modules)
    /\ ~InResults(ModulesText)

\* C15: a search of a validated root never throws.
C15_SearchNeverThrows == searchOutcome.kind # "throw"

\* C16: every collected path that resolves has its canonical form under an
\* allowed directory.
C16_ResultsCanonicalInside ==
    \A i \in 1..Len(results) :
        LET real == Realpath(fs, results[i])
        IN real.ok => UnderAllowList(real.path)


Inside(p, dir) == StartsWith(p, dir \o <<SEP>>)

EntryName(p) == LET segments == Split(p, SEP) IN segments[Len(segments)]

\* The entries between the root and p, both left out.
DirectoriesAbove(p) ==
    {q \in DOMAIN fs : Inside(q, rootPath) /\ Inside(p, q)}

Passes(p) == validatePath(allowedDirectories, fs, p).kind = "return"

Excluded(p) ==
    \E i \in 1..Len(excludePatterns) :
        minimatch(PathRelative(rootPath, p),
                  IF Includes(excludePatterns[i], <<STAR>>) THEN excludePatterns[i]
                  ELSE GLOBSTAR \o <<SEP>> \o excludePatterns[i] \o <<SEP>> \o GLOBSTAR)

\* The walk comes to the entry p: every entry above it is a directory (no
\* symlink) that passed validation, was not excluded and could be listed.
Reached(p) ==
    /\ Inside(p, rootPath)
    /\ fs[p].type # "none"
    /\ \A q \in DirectoriesAbove(p) :
          /\ fs[q].type = "dir"
          /\ Passes(q)
          /\ ~Excluded(q)
          /\ q \notin unreadable

ContainsIgnoringCase(name, pat) == Includes(toLowerCase(name), toLowerCase(pat))

ShouldEmit(p) ==
    /\ Reached(p)
    /\ Passes(p)
    /\ ~Excluded(p)
    /\ ContainsIgnoringCase(EntryName(p), pattern)

\* C25: the search returns the path of an entry exactly when the walk comes
\* to it, it passes validation, it is not excluded and its name contains the
\* pattern whatever the case, directory or not; nothing at or below an
\* excluded entry is returned, and a non-excluded directory is walked
\* whether its own name matches or not.
C25_EmittedExactlyWhenMatching ==
    searchOutcome.kind = "return" =>
        /\ \A p \in DOMAIN fs : InResults(p) <=> ShouldEmit(p)
        /\ \A i \in 1..Len(results) : results[i] \in DOMAIN fs
        /\ \A p, q \in DOMAIN fs : (Excluded(q) /\ (p = q \/ Inside(p, q))) => ~InResults(p)

\* A file whose name matches only when case is ignored is returned; the
\* directories above the excluded file do not match and were walked; the
\* excluded file matches the name pattern and is left out.
C25_Witness ==
    /\ searchOutcome.kind = "return"
    /\ rootPath = DirA
    /\ pattern = <<".", "T", "x", "t">>
    /\ excludePatterns = <<<<"*", "*", "/", "*", ".", "t", "x", "t">>>>
    /\ unreadable = {}
    /\ fs[ModulesText].type = "file"
    /\ fs[UpperText].type = "file"
    /\ InResults(UpperText)
    /\ ~InResults(ModulesText)
    /\ Reached(ModulesText)
    /\ Excluded(ModulesText)

NameIndex(name) == CHOOSE k \in 1..Len(EntryNames) : EntryNames[k] = name

RelativeSegments(p) == Split(PathRelative(rootPath, p), SEP)

\* The first position at which two segment lists differ.
FirstDifference(sx, sy) ==
    CHOOSE k \in 1..(Min(Len(sx), Len(sy)) + 1) :
        /\ \A h \in 1..(k - 1) : sx[h] = sy[h]
        /\ k <= Min(Len(sx), Len(sy)) => sx[k] # sy[k]

\* x comes before y in the depth-first pre-order of the tree: x is a
\* directory above y, or where their paths part the entry leading to x is
\* listed before the entry leading to y.
PreOrderBefore(x, y) ==
    LET sx == RelativeSegments(x)
        sy == RelativeSegments(y)
        k == FirstDifference(sx, sy)
    IN IF k > Len(sx) THEN k <= Len(sy)
       ELSE IF k > Len(sy) THEN FALSE
       ELSE NameIndex(sx[k]) < NameIndex(sy[k])

ResultsInPreOrder ==
    /\ \A i, j \in 1..Len(results) : i < j => PreOrderBefore(results[i], results[j])
    /\ \A i, j \in 1..Len(results) : i < j => results[i] # results[j]
    /\ \A i, j \in 1..Len(results) : i < j => ~Inside(results[i], results[j])
    /\ \A i, j, k \in 1..Len(results), d \in DOMAIN fs :
          (i < k /\ k < j /\ Inside(results[i], d) /\ Inside(results[j], d))
              => Inside(results[k], d)
    /\ searchOutcome.kind = "return" => searchOutcome.value = results

ResultsOnlyAppended ==
    \/ results' = results
    \/ \E p \in DOMAIN fs : results' = Append(results, p)

IsSorted(list) == \A i, j \in 1..Len(list) : i < j => ~Precedes(list[j], list[i])

\* C26: the results are in depth-first pre-order by listing order: a
\* directory comes before every returned path inside it, the returned paths
\* of a directory's subtree are contiguous and come before those of the
\* entries listed after it, no path occurs twice, and the list only ever
\* grows at its end and is returned as collected, unsorted.
C26_DepthFirstPreOrder == []ResultsInPreOrder /\ [][ResultsOnlyAppended]_vars

\* Everything matches: /a/a and what is inside it come first, in nesting
\* order, then the entries listed after /a/a; sorting would put /a/X.TXT
\* first.
C26_Witness ==
    /\ searchOutcome.kind = "return"
    /\ rootPath = DirA
    /\ excludePatterns = <<>>
    /\ results = <<DirAA, DirAAB, Modules, ModulesText, LinkL, UpperText>>
    /\ ~IsSorted(results)

SearchEnded == searchOutcome.kind \in {"return", "throw"}

Listings == {k \in 1..Len(walked) : walked[k].op = "readdir"}
Visits == {k \in 1..Len(walked) : walked[k].op = "entry"}

\* The directory a readdir call lists: the path with its symlinks resolved.
ListedDirectory(k) == Realpath(fs, walked[k].path)

WalkedOnce ==
    /\ \A h, k \in Visits : h # k => walked[h].path # walked[k].path
    /\ \A h, k \in Listings :
          (h # k /\ ListedDirectory(h).ok /\ ListedDirectory(k).ok)
              => ListedDirectory(h).path # ListedDirectory(k).path
    /\ \A k \in Listings :
          k > 1 => /\ Lookup(fs, walked[k].path).type = "dir"
                   /\ walked[k - 1] = Visited(walked[k].path)

\* C29: the search ends on every tree, symlink cycles included: only an
\* entry that is itself a directory is listed, never a symlink to one, so
\* no directory is listed twice and no entry is visited twice.
C29_SearchTerminates == []WalkedOnce /\ <>SearchEnded

\* The search of /a has returned although /a/l is a symlink back to /a; the
\* link was visited and returned, not listed.
C29_Witness ==
    /\ searchOutcome.kind = "return"
    /\ rootPath = DirA
    /\ fs[LinkL] = LinkNode(DirA)
    /\ excludePatterns = <<>>
    /\ InResults(LinkL)
    /\ \E k \in Visits : walked[k].path = LinkL
    /\ \A k \in Listings : walked[k].path # LinkL

----------------------------------------------------------------------------
(* The process: start-up, the CallTool request handler, move_file *)

MaxRoots == 2       \* most roots given on the command line
MaxCalls == 2       \* tool calls served in a run

\* A string literal as text.
Chars(str) == [i \in 1..Len(str) |-> SubSeq(str, i, i)]

FileF == Child(DirA, <<"f">>)
FileG == Child(DirA, <<"g">>)
MissingParentLeaf == Child(Child(DirA, <<"m">>), <<"n">>)

ServerTrees ==
    { (DirA :> DirNode) @@ (DirO :> DirNode) @@ (OutsideText :> FileNode)
        @@ (FileF :> f) @@ (FileG :> g) :
        f \in {FileNode, NoNode},
        g \in {FileNode, DirNode, NoNode} }

RootArgs == {DirA, <<"~">>, FileF, <<"/", "m">>}

ArgLists == SeqsUpTo(RootArgs, MaxRoots)

\* fs.stat(p): the type of the node p resolves to, or a failure.
Stat(fsys, p) ==
    LET real == Realpath(fsys, PathResolve(Cwd, p))
    IN IF real.ok THEN Lookup(fsys, real.path).type ELSE "ENOENT"

InitServer ==
    /\ allowedDirectories = <<>>
    /\ fs \in ServerTrees
    /\ requestedPath = <<>>
    /\ outcome = NoOutcome
    /\ disk = <<>>
    /\ diskBefore = <<>>
    /\ edits = <<>>
    /\ dryRun = FALSE
    /\ pc = "idle"
    /\ content = <<>>
    /\ modifiedContent = <<>>
    /\ editIdx = 0
    /\ editResult = NoEditResult
    /\ rootPath = <<>>
    /\ pattern = <<>>
    /\ excludePatterns = <<>>
    /\ unreadable = {}
    /\ stack = <<>>
    /\ results = <<>>
    /\ searchOutcome = NoSearchOutcome
    /\ walked = <<>>
    /\ argv \in ArgLists
    /\ phase = "start"
    /\ exitCode = 0
    /\ checked = {}
    /\ handler \in {"registry", "switch"}
    /\ request = NoRequest
    /\ response = NoResponse
    /\ failure = <<>>
    /\ served = 0
    /\ paths = <<>>
    /\ progress = <<>>
    /\ slotTexts = <<>>
    /\ firstDone = 0
    /\ readResponse = NoResponse
    /\ tool = ""
    /\ toolPath = <<>>
    /\ toolPc = "idle"
    /\ toolValid = NoOutcome
    /\ touched = {}
    /\ validated = {}
    /\ toolOutcome = NoResponse
    /\ fsBefore = fs

\* The command line: no argument is a usage error, otherwise the allow-list
\* is the normalized absolute form of the arguments.
ParseArgs ==
    /\ phase = "start"
    /\ IF Len(argv) = 0
       THEN /\ phase' = "exited"
            /\ exitCode' = 1
            /\ UNCHANGED allowedDirectories
       ELSE /\ allowedDirectories' =
                   [i \in 1..Len(argv) |->
                       normalizePath(PathResolve(Cwd, expandHome(argv[i])))]
            /\ phase' = "checking"
            /\ UNCHANGED exitCode
    /\ UNCHANGED <<fs, argv, checked, handler, request, response, failure, served>>

\* A variant that lets a root through when it is no directory.
StatRoot_AcceptsAnyNode(i) ==
    /\ phase = "checking"
    /\ i \in (1..Len(argv)) \ checked
    /\ IF Stat(fs, expandHome(argv[i])) # "ENOENT"
       THEN /\ checked' = checked \cup {i}
            /\ UNCHANGED <<phase, exitCode>>
       ELSE /\ phase' = "exited"
            /\ exitCode' = 1
            /\ UNCHANGED checked
    /\ UNCHANGED <<allowedDirectories, fs, argv, handler, request, response, failure, served>>

\* One of the concurrent checks of Promise.all: the root must be a
\* directory, or the process exits.
StatRoot(i) ==
    /\ phase = "checking"
    /\ i \in (1..Len(argv)) \ checked
    /\ IF Stat(fs, expandHome(argv[i])) = "dir"
       THEN /\ checked' = checked \cup {i}
            /\ UNCHANGED <<phase, exitCode>>
       ELSE /\ phase' = "exited"
            /\ exitCode' = 1
            /\ UNCHANGED checked
    /\ UNCHANGED <<allowedDirectories, fs, argv, handler, request, response, failure, served>>

\* runServer: server.connect after every check is through.
Connect ==
    /\ phase = "checking"
    /\ checked = 1..Len(argv)
    /\ phase' = "running"
    /\ UNCHANGED <<allowedDirectories, fs, argv, exitCode, checked, handler, request,
                   response, failure, served>>

\* runServer().catch: a transport that cannot be connected ends the process.
ConnectFails ==
    /\ phase = "checking"
    /\ checked = 1..Len(argv)
    /\ phase' = "exited"
    /\ exitCode' = 1
    /\ UNCHANGED <<allowedDirectories, fs, argv, checked, handler, request, response,
                   failure, served>>

\* fs.rename(2) on the tree.
RenameError(code, src, dst) ==
    [ok |-> FALSE, fs |-> <<>>,
     message |-> Chars(code) \o Chars(", rename ") \o src \o Chars(" -> ") \o dst]

IsBelow(p, dir) == StartsWith(p, dir \o <<SEP>>)

Rename(fsys, src, dst) ==
    LET srcNode == Lookup(fsys, src)
        dstNode == Lookup(fsys, dst)
        dstParent == Lookup(fsys, PathDirname(dst))
        carried == {p \in DOMAIN fsys : p = src \/ IsBelow(p, src)}
        Moved(p) == dst \o Slice(p, Len(src))
        occupied == \E p \in DOMAIN fsys : IsBelow(p, dst) /\ fsys[p].type # "none"
    IN IF srcNode.type = "none" THEN RenameError("ENOENT", src, dst)
       ELSE IF dstParent.type = "none" THEN RenameError("ENOENT", src, dst)
       ELSE IF dstParent.type # "dir" THEN RenameError("ENOTDIR", src, dst)
       ELSE IF src = dst THEN [ok |-> TRUE, fs |-> fsys, message |-> <<>>]
       ELSE IF srcNode.type = "dir" /\ IsBelow(dst, src) THEN RenameError("EINVAL", src, dst)
       ELSE IF srcNode.type # "dir" /\ dstNode.type = "dir"
       THEN RenameError("EISDIR", src, dst)
       ELSE IF srcNode.type = "dir" /\ dstNode.type \in {"file", "link"}
       THEN RenameError("ENOTDIR", src, dst)
       ELSE IF dstNode.type = "dir" /\ occupied THEN RenameError("ENOTEMPTY", src, dst)
       ELSE [ok |-> TRUE,
             fs |-> [q \in DOMAIN fsys \cup {Moved(p) : p \in carried} |->
                        IF \E p \in carried : Moved(p) = q
                        THEN fsys[CHOOSE p \in carried : Moved(p) = q]
                        ELSE IF q \in carried THEN NoNode
                        ELSE fsys[q]],
             message |-> <<>>]

\* What a tool's run comes to: a text, or an error thrown on the way.
RunDone(text, fsys) == [ok |-> TRUE, text |-> text, fs |-> fsys]
RunThrows(message, fsys) == [ok |-> FALSE, text |-> message, fs |-> fsys]

\* move_file after the rename.
MoveRenamed(renamed, fsys, arguments) ==
    IF ~renamed.ok THEN RunThrows(renamed.message, fsys)
    ELSE RunDone(Chars("Successfully moved ") \o arguments.source
                     \o Chars(" to ") \o arguments.destination,
                 renamed.fs)

\* move_file after the two validations.
MoveValidated(validSourcePath, validDestPath, fsys, arguments) ==
    IF validSourcePath.kind = "throw"
    THEN RunThrows(Chars(validSourcePath.message), fsys)
    ELSE IF validDestPath.kind = "throw"
    THEN RunThrows(Chars(validDestPath.message), fsys)
    ELSE MoveRenamed(Rename(fsys, validSourcePath.value, validDestPath.value),
                     fsys, arguments)

move_file(allowed, fsys, arguments) ==
    MoveValidated(validatePath(allowed, fsys, arguments.source),
                  validatePath(allowed, fsys, arguments.destination),
                  fsys, arguments)

list_allowed_directories(allowed, fsys) ==
    RunDone(Chars("Allowed directories:") \o <<"\n">>
                \o Join(allowed, "\n"), fsys)

ToolNames == {"move_file", "list_allowed_directories"}
RequestNames == ToolNames \cup {"format_disk"}

MovePaths == {FileF, FileG, OutsideText, MissingParentLeaf}

\* The arguments of a call: source and destination, or an empty object.
ArgumentSets ==
    {[source |-> s, destination |-> d] : s, d \in MovePaths} \cup {<<>>}

\* The calls a client makes: move_file with any arguments, the other names
\* with an empty object.
ToolCalls ==
    {[name |-> n, arguments |-> a] : n \in {"move_file"}, a \in ArgumentSets}
    \cup {[name |-> n, arguments |-> <<>>] : n \in RequestNames}

\* inputSchema.safeParse: move_file wants two strings, the other tool nothing.
SafeParse(name, arguments) ==
    name = "move_file" => DOMAIN arguments = {"source", "destination"}

ZodErrorText == Chars("[{\"code\":\"invalid_type\"}]")

Run(name, allowed, fsys, arguments) ==
    IF name = "move_file" THEN move_file(allowed, fsys, arguments)
    ELSE list_allowed_directories(allowed, fsys)

Result(text, fsys) ==
    [response |-> [kind |-> "result", isError |-> FALSE, text |-> text],
     failure |-> <<>>, fs |-> fsys]
ErrorResult(message, fsys) ==
    [response |-> [kind |-> "result", isError |-> TRUE, text |-> Chars("Error: ") \o message],
     failure |-> message, fs |-> fsys]
Rejection(message, fsys) ==
    [response |-> [kind |-> "rejected", isError |-> FALSE, text |-> message],
     failure |-> message, fs |-> fsys]

\* The handler over the command registry: "return tool.run(validArgs)"
\* hands the promise of run to the caller without awaiting it in the try.
RegistryHandler(fsys, name, arguments, run) ==
    IF name \notin ToolNames
    THEN ErrorResult(Chars("Tool ") \o Chars(name) \o Chars(" not found"), fsys)
    ELSE IF ~SafeParse(name, arguments)
    THEN ErrorResult(Chars("Invalid arguments for ") \o Chars(name) \o Chars(": ")
                         \o ZodErrorText, fsys)
    ELSE IF run.ok THEN Result(run.text, run.fs)
    ELSE Rejection(run.text, run.fs)

\* The handler with the switch over the tool name: every step is awaited
\* inside the try.
SwitchHandler(fsys, name, arguments, run) ==
    IF name \notin ToolNames
    THEN ErrorResult(Chars("Unknown tool: ") \o Chars(name), fsys)
    ELSE IF ~SafeParse(name, arguments)
    THEN ErrorResult(Chars("Invalid arguments for ") \o Chars(name) \o Chars(": ")
                         \o ZodErrorText, fsys)
    ELSE IF run.ok THEN Result(run.text, run.fs)
    ELSE ErrorResult(run.text, run.fs)

Handle(variant, fsys, name, arguments, run) ==
    IF variant = "registry"
    THEN RegistryHandler(fsys, name, arguments, run)
    ELSE SwitchHandler(fsys, name, arguments, run)

\* The promise of the handler settles: the response, and what the run did
\* to the filesystem.
Settle(settled) ==
    /\ response' = settled.response
    /\ failure' = settled.failure
    /\ fs' = settled.fs

\* One tool call, from the request to the settling of the handler's promise.
CallTool(name, arguments) ==
    /\ phase = "running"
    /\ served < MaxCalls
    /\ Settle(Handle(handler, fs, name, arguments,
                     Run(name, allowedDirectories, fs, arguments)))
    /\ request' = [name |-> name, arguments |-> arguments]
    /\ served' = served + 1
    /\ UNCHANGED <<allowedDirectories, argv, phase, exitCode, checked, handler>>

idleVars == <<requestedPath, outcome, editVars, searchVars, readVars, toolVars>>

NextServer ==
    \/ ParseArgs /\ UNCHANGED idleVars
    \/ \E i \in 1..MaxRoots : StatRoot(i) /\ UNCHANGED idleVars
    \/ Connect /\ UNCHANGED idleVars
    \/ ConnectFails /\ UNCHANGED idleVars
    \/ \E call \in ToolCalls : CallTool(call.name, call.arguments) /\ UNCHANGED idleVars

SpecServer == InitServer /\ [][NextServer]_vars


----------------------------------------------------------------------------
(* Properties of the process *)

\* C17: whatever fails while a call is served, the handler's promise is
\* fulfilled, with an error result whose text is "Error: " and the message.
C17_FailuresAreErrorResults ==
    served > 0 =>
        /\ response.kind = "result"
        /\ failure # <<>> =>
               /\ response.isError
               /\ response.text = Chars("Error: ") \o failure

RootsValid ==
    /\ Len(argv) > 0
    /\ \A i \in 1..Len(argv) : Stat(fs, expandHome(argv[i])) = "dir"

AllowListOf(roots) ==
    [i \in 1..Len(roots) |-> normalizePath(PathResolve(Cwd, expandHome(roots[i])))]

StartedOnValidRoots ==
    /\ phase = "exited" => exitCode # 0
    /\ (phase = "running" \/ served > 0) =>
           /\ RootsValid
           /\ checked = 1..Len(argv)
           /\ allowedDirectories = AllowListOf(argv)

AllowListFrozen == phase = "running" => allowedDirectories' = allowedDirectories

\* C19: the process runs, and serves calls, only when every root given is a
\* directory, and it exits with a non-zero status otherwise; while it runs,
\* no step changes the allow-list.
C19_StartupFailFast == []StartedOnValidRoots /\ [][AllowListFrozen]_vars

C19_Witness ==
    /\ phase = "exited"
    /\ exitCode = 1
    /\ Len(argv) = 2
    /\ checked # {}
    /\ ~RootsValid
    /\ served = 0

\* The step is a move_file call whose source and destination validate and
\* whose destination is there.
MoveOntoExisting ==
    /\ served' = served + 1
    /\ request'.name = "move_file"
    /\ SafeParse("move_file", request'.arguments)
    /\ validatePath(allowedDirectories, fs, request'.arguments.source).kind = "return"
    /\ LET validDestPath == validatePath(allowedDirectories, fs,
                                         request'.arguments.destination)
       IN /\ validDestPath.kind = "return"
          /\ Lookup(fs, validDestPath.value).type # "none"

\* C20: a move_file call onto a destination that is there ends in an error
\* result and leaves the filesystem as it was.
C20_ExistingDestinationFails ==
    [][MoveOntoExisting =>
          /\ response'.kind = "result"
          /\ response'.isError
          /\ fs' = fs]_vars


----------------------------------------------------------------------------
(* read_multiple_files *)

MaxPaths == 3       \* most paths in a request

ReadPaths == {FileF, FileG, OutsideText}

PathLists == SeqsUpTo(ReadPaths, MaxPaths)

\* What the files hold.
FileContent(p) ==
    IF p = FileF THEN <<"h", "i">>
    ELSE IF p = FileG THEN <<"y", "o", "\n">>
    ELSE <<>>

\* fs.readFile(p, "utf-8").
FsReadFile(fsys, p) ==
    IF Lookup(fsys, p).type = "file" THEN [ok |-> TRUE, text |-> FileContent(p)]
    ELSE IF Lookup(fsys, p).type = "dir"
    THEN [ok |-> FALSE, text |-> Chars("EISDIR: illegal operation on a directory, read")]
    ELSE [ok |-> FALSE, text |-> Chars("ENOENT: no such file or directory, open ") \o p]

ReadText(filePath, fileText) == filePath \o <<":", "\n">> \o fileText \o <<"\n">>
ReadErrorText(filePath, errorMessage) == filePath \o Chars(": Error - ") \o errorMessage

RECURSIVE JoinWith(_, _)
JoinWith(parts, separator) ==
    IF parts = <<>> THEN <<>>
    ELSE IF Len(parts) = 1 THEN parts[1]
    ELSE parts[1] \o separator \o JoinWith(Tail(parts), separator)

ResultSeparator == <<"\n", "-", "-", "-", "\n">>

InitRead ==
    /\ allowedDirectories = <<DirA>>
    /\ fs \in ServerTrees
    /\ requestedPath = <<>>
    /\ outcome = NoOutcome
    /\ disk = <<>>
    /\ diskBefore = <<>>
    /\ edits = <<>>
    /\ dryRun = FALSE
    /\ pc = "idle"
    /\ content = <<>>
    /\ modifiedContent = <<>>
    /\ editIdx = 0
    /\ editResult = NoEditResult
    /\ rootPath = <<>>
    /\ pattern = <<>>
    /\ excludePatterns = <<>>
    /\ unreadable = {}
    /\ stack = <<>>
    /\ results = <<>>
    /\ searchOutcome = NoSearchOutcome
    /\ walked = <<>>
    /\ argv = <<DirA>>
    /\ phase = "running"
    /\ exitCode = 0
    /\ checked = {1}
    /\ handler = "switch"
    /\ request = NoRequest
    /\ response = NoResponse
    /\ failure = <<>>
    /\ served = 0
    /\ paths \in PathLists
    /\ progress = [i \in 1..Len(paths) |-> [state |-> "pending", validPath |-> <<>>]]
    /\ slotTexts = [i \in 1..Len(paths) |-> <<>>]
    /\ firstDone = 0
    /\ readResponse = NoResponse
    /\ tool = ""
    /\ toolPath = <<>>
    /\ toolPc = "idle"
    /\ toolValid = NoOutcome
    /\ touched = {}
    /\ validated = {}
    /\ toolOutcome = NoResponse
    /\ fsBefore = fs

\* A variant that collects the texts in the order the tasks return.
Store_InCompletionOrder(i, text) ==
    [slotTexts EXCEPT
        ![Cardinality({k \in 1..Len(paths) : progress[k].state = "done"}) + 1] = text]

\* Promise.all keeps the value of the i-th promise at index i.
Store(i, text) == [slotTexts EXCEPT ![i] = text]

Returned_i(i, text) ==
    /\ slotTexts' = Store(i, text)
    /\ firstDone' = IF firstDone = 0 THEN i ELSE firstDone

Validated(i, valid) ==
    IF valid.kind = "throw"
    THEN /\ progress' = [progress EXCEPT ![i] = [state |-> "done", validPath |-> <<>>]]
         /\ Returned_i(i, ReadErrorText(paths[i], Chars(valid.message)))
    ELSE /\ progress' = [progress EXCEPT
                            ![i] = [state |-> "validated", validPath |-> valid.value]]
         /\ UNCHANGED <<slotTexts, firstDone>>

\* The first await of the i-th task: validatePath(filePath).
ValidateOne(i) ==
    /\ readResponse.kind = "none"
    /\ i \in 1..Len(paths)
    /\ progress[i].state = "pending"
    /\ Validated(i, validatePath(allowedDirectories, fs, paths[i]))
    /\ UNCHANGED <<paths, readResponse>>

WasRead(i, file) ==
    Returned_i(i, IF file.ok THEN ReadText(paths[i], file.text)
                  ELSE ReadErrorText(paths[i], file.text))

\* The second await of the i-th task: fs.readFile(validPath).
ReadOne(i) ==
    /\ readResponse.kind = "none"
    /\ i \in 1..Len(paths)
    /\ progress[i].state = "validated"
    /\ progress' = [progress EXCEPT ![i].state = "done"]
    /\ WasRead(i, FsReadFile(fs, progress[i].validPath))
    /\ UNCHANGED <<paths, readResponse>>

\* Promise.all is fulfilled: the texts are joined and returned.
JoinResults ==
    /\ readResponse.kind = "none"
    /\ \A i \in 1..Len(paths) : progress[i].state = "done"
    /\ readResponse' = [kind |-> "result", isError |-> FALSE,
                        text |-> JoinWith(slotTexts, ResultSeparator)]
    /\ UNCHANGED <<paths, progress, slotTexts, firstDone>>

restOfRead == <<pathVars, editVars, searchVars, serverVars, toolVars>>

NextRead ==
    \/ \E i \in 1..MaxPaths : ValidateOne(i) /\ UNCHANGED restOfRead
    \/ \E i \in 1..MaxPaths : ReadOne(i) /\ UNCHANGED restOfRead
    \/ JoinResults /\ UNCHANGED restOfRead

SpecRead == InitRead /\ [][NextRead]_vars

----------------------------------------------------------------------------
(* Properties of read_multiple_files *)

ExpectedRead(validPath, filePath) ==
    IF validPath.kind = "throw"
    THEN ReadErrorText(filePath, Chars(validPath.message))
    ELSE IF Lookup(fs, validPath.value).type = "file"
    THEN ReadText(filePath, FileContent(validPath.value))
    ELSE ReadErrorText(filePath, FsReadFile(fs, validPath.value).text)

ExpectedSegment(filePath) ==
    ExpectedRead(validatePath(allowedDirectories, fs, filePath), filePath)

\* C18: the result of read_multiple_files is no error result, and its text
\* is the texts of the requested paths in request order joined by the
\* separator line, each the content of the file or the inline error of that
\* path, whatever the order in which the tasks returned.
C18_ResultsArePositional ==
    readResponse.kind # "none" =>
        /\ readResponse.kind = "result"
        /\ ~readResponse.isError
        /\ readResponse.text =
               JoinWith([i \in 1..Len(paths) |-> ExpectedSegment(paths[i])],
                        ResultSeparator)

C18_Witness ==
    /\ readResponse.kind = "result"
    /\ Len(paths) = 3
    /\ paths[1] = FileF
    /\ paths[2] = OutsideText
    /\ paths[3] = FileG
    /\ fs[FileF].type = "file"
    /\ fs[FileG].type = "file"
    /\ firstDone = 2
    /\ StartsWith(readResponse.text, ReadText(FileF, FileContent(FileF)))
    /\ Includes(readResponse.text, ReadErrorText(OutsideText, Chars(AccessDeniedOutside)))

----------------------------------------------------------------------------
(* Tool runs that change the filesystem: create_directory and
   write_audio_metadata, one statement of the run per action *)

PathBasename(p) ==
    LET segments == SelectSeq(Split(p, SEP), LAMBDA x : x # <<>>)
    IN IF segments = <<>> THEN <<>> ELSE segments[Len(segments)]

\* The path the kernel acts on for p: the parent directory with its
\* symlinks resolved, then the last component.
ResolveParent(fsys, p) ==
    LET parent == Realpath(fsys, PathDirname(p))
    IN IF parent.ok THEN PathJoin(parent.path, PathBasename(p)) ELSE p

MkdirError(code, p) ==
    [ok |-> FALSE, fs |-> <<>>,
     message |-> Chars(code) \o Chars(": mkdir ") \o <<QUOTE>> \o p \o <<QUOTE>>]

\* fs.mkdir(p, { recursive: true }): creates every missing component of p,
\* succeeds when p is already a directory, fails on a component that is a
\* regular file.
RECURSIVE MkdirFrom(_, _, _, _, _)
MkdirFrom(fsys, p, cur, rest, fuel) ==
    IF rest = <<>> THEN [ok |-> TRUE, fs |-> fsys, message |-> <<>>]
    ELSE LET next == cur \o <<SEP>> \o Head(rest)
             node == Lookup(fsys, next)
         IN CASE node.type = "none" ->
                    MkdirFrom([q \in DOMAIN fsys \cup {next} |->
                                  IF q = next THEN DirNode ELSE fsys[q]],
                              p, next, Tail(rest), fuel)
              [] node.type = "dir" -> MkdirFrom(fsys, p, next, Tail(rest), fuel)
              [] node.type = "file" ->
                    MkdirError(IF Tail(rest) = <<>> THEN "EEXIST" ELSE "ENOTDIR", p)
              [] node.type = "link" ->
                    IF fuel = 0 THEN MkdirError("ELOOP", p)
                    ELSE IF ~Realpath(fsys, next).ok THEN MkdirError("EEXIST", p)
                    ELSE MkdirFrom(fsys, p, <<>>,
                            NormalizeSegments(Split(node.target, SEP), <<>>, FALSE)
                                \o Tail(rest),
                            fuel - 1)

MkdirRecursive(fsys, p) ==
    MkdirFrom(fsys, p, <<>>, NormalizeSegments(Split(p, SEP), <<>>, FALSE), MaxLinkHops)

TmpName == Chars("tmp")
TmpDirOf(validPath) == PathJoin(PathDirname(validPath), TmpName)
TmpPathOf(validPath) == PathJoin(TmpDirOf(validPath), PathBasename(validPath))

FfmpegError == Chars("Invalid data found when processing input")

ToolResult(text) == [kind |-> "result", isError |-> FALSE, text |-> text]
ToolError(message) ==
    [kind |-> "result", isError |-> TRUE, text |-> Chars("Error: ") \o message]

DirTmp == Child(DirA, TmpName)
TmpF == Child(DirTmp, <<"f">>)
NestedLeaf == Child(DirAAB, NameB)
OutsideF == Child(DirO, <<"f">>)

\* /a and /o exist; below /a: a (with b below it), the audio file f, and
\* the tmp directory write_audio_metadata writes into.
ToolTrees ==
    { tree \in
        { (DirA :> DirNode) @@ (DirO :> DirNode) @@ (DirAA :> a) @@ (DirAAB :> b)
            @@ (FileF :> f) @@ (DirTmp :> t) @@ (TmpF :> NoNode)
            @@ (OutsideF :> NoNode) @@ (NestedLeaf :> NoNode) :
            a \in {NoNode, DirNode, FileNode},
            b \in {NoNode, DirNode},
            f \in {NoNode, FileNode},
            t \in {NoNode, DirNode, FileNode, LinkNode(DirO)} } :
        tree[DirAAB].type = "dir" => tree[DirAA].type = "dir" }

FsTools == {"create_directory", "write_audio_metadata"}
ToolPaths == {DirA, DirAA, DirAAB, NestedLeaf, FileF, OutsideF}

InitTools ==
    /\ allowedDirectories = <<DirA>>
    /\ fs \in ToolTrees
    /\ requestedPath = <<>>
    /\ outcome = NoOutcome
    /\ disk = <<>>
    /\ diskBefore = <<>>
    /\ edits = <<>>
    /\ dryRun = FALSE
    /\ pc = "done"
    /\ content = <<>>
    /\ modifiedContent = <<>>
    /\ editIdx = 1
    /\ editResult = NoEditResult
    /\ rootPath = <<>>
    /\ pattern = <<>>
    /\ excludePatterns = <<>>
    /\ unreadable = {}
    /\ stack = <<>>
    /\ results = <<>>
    /\ searchOutcome = NoSearchOutcome
    /\ walked = <<>>
    /\ argv = <<>>
    /\ phase = "running"
    /\ exitCode = 0
    /\ checked = 0
    /\ handler = "switch"
    /\ request = NoRequest
    /\ response = NoResponse
    /\ failure = <<>>
    /\ served = 0
    /\ paths = <<>>
    /\ progress = <<>>
    /\ slotTexts = <<>>
    /\ firstDone = 0
    /\ readResponse = NoResponse
    /\ tool = ""
    /\ toolPath = <<>>
    /\ toolPc = "idle"
    /\ toolValid = NoOutcome
    /\ touched = {}
    /\ validated = {}
    /\ toolOutcome = NoResponse
    /\ fsBefore = fs

\* The request reaches the tool's case: the arguments parsed.
Invoke(name, p) ==
    /\ toolPc = "idle"
    /\ tool' = name
    /\ toolPath' = p
    /\ toolPc' = "validate"
    /\ fsBefore' = fs
    /\ UNCHANGED <<fs, toolValid, touched, validated, toolOutcome>>

\* const validPath = await validatePath(parsed.data.path)
ToolValidated(validPath) ==
    /\ toolValid' = validPath
    /\ IF validPath.kind = "throw"
       THEN /\ toolOutcome' = ToolError(Chars(validPath.message))
            /\ toolPc' = "done"
            /\ validated' = validated
       ELSE /\ toolOutcome' = toolOutcome
            /\ toolPc' = IF tool = "create_directory" THEN "mkdir" ELSE "mkdirTmp"
            /\ validated' = validated \cup {validPath.value}
    /\ UNCHANGED <<fs, tool, toolPath, touched, fsBefore>>

ToolValidate ==
    /\ toolPc = "validate"
    /\ ToolValidated(validatePath(allowedDirectories, fs, toolPath))

\* create_directory: await fs.mkdir(validPath, { recursive: true })
MkdirDone(made, text, nextPc) ==
    /\ IF made.ok
       THEN /\ fs' = made.fs
            /\ toolPc' = nextPc
            /\ toolOutcome' = IF nextPc = "done" THEN ToolResult(text) ELSE toolOutcome
       ELSE /\ fs' = fs
            /\ toolPc' = "done"
            /\ toolOutcome' = ToolError(made.message)
    /\ UNCHANGED <<tool, toolPath, toolValid, validated, fsBefore>>

create_directory ==
    /\ toolPc = "mkdir"
    /\ touched' = touched \cup {toolValid.value}
    /\ MkdirDone(MkdirRecursive(fs, toolValid.value),
                 Chars("Successfully created directory ") \o toolPath, "done")

\* write_audio_metadata: tmpDir = path.join(path.dirname(validPath), "tmp");
\* await fs.mkdir(tmpDir, { recursive: true })
MkdirTmp ==
    /\ toolPc = "mkdirTmp"
    /\ touched' = touched \cup {TmpDirOf(toolValid.value)}
    /\ MkdirDone(MkdirRecursive(fs, TmpDirOf(toolValid.value)), <<>>, "ffmpeg")

\* execFile("ffmpeg", ["-y", "-i", validPath, ..., tmpPath]): reads validPath
\* and writes tmpPath, or fails (no such file, not an audio file).
Ffmpeg(ok, written) ==
    /\ toolPc = "ffmpeg"
    /\ ok => Stat(fs, toolValid.value) = "file"
    /\ touched' = touched \cup {toolValid.value, TmpPathOf(toolValid.value)}
    /\ IF ok
       THEN /\ fs' = [q \in DOMAIN fs \cup {written} |->
                         IF q = written THEN FileNode ELSE fs[q]]
            /\ toolPc' = "rename"
            /\ toolOutcome' = toolOutcome
       ELSE /\ fs' = fs
            /\ toolPc' = "done"
            /\ toolOutcome' = ToolError(FfmpegError)
    /\ UNCHANGED <<tool, toolPath, toolValid, validated, fsBefore>>

\* await fs.rename(tmpPath, validPath)
Renamed(moved) ==
    /\ IF moved.ok
       THEN /\ fs' = moved.fs
            /\ toolOutcome' = ToolResult(Chars("Successfully wrote audio tags to ")
                                           \o toolPath)
       ELSE /\ fs' = fs
            /\ toolOutcome' = ToolError(moved.message)
    /\ toolPc' = "done"
    /\ UNCHANGED <<tool, toolPath, toolValid, validated, fsBefore>>

RenameBack ==
    /\ toolPc = "rename"
    /\ touched' = touched \cup {TmpPathOf(toolValid.value), toolValid.value}
    /\ Renamed(Rename(fs, ResolveParent(fs, TmpPathOf(toolValid.value)), toolValid.value))

restOfTools == <<allowedDirectories, requestedPath, outcome,
                 editVars, searchVars, serverVars, readVars>>

NextTools ==
    \/ \E name \in FsTools, p \in ToolPaths : Invoke(name, p) /\ UNCHANGED restOfTools
    \/ ToolValidate /\ UNCHANGED restOfTools
    \/ create_directory /\ UNCHANGED restOfTools
    \/ MkdirTmp /\ UNCHANGED restOfTools
    \/ \E ok \in BOOLEAN :
          Ffmpeg(ok, ResolveParent(fs, TmpPathOf(toolValid.value)))
          /\ UNCHANGED restOfTools
    \/ RenameBack /\ UNCHANGED restOfTools

SpecTools == InitTools /\ [][NextTools]_vars

----------------------------------------------------------------------------
(* Properties of the tool runs *)

Parent(p) == PathDirname(p)

\* A create_directory call has finished on a path whose grandparent existed
\* and whose parent and leaf did not.
NestedCreateDone ==
    /\ toolPc = "done"
    /\ tool = "create_directory"
    /\ UnderAllowList(toolPath)
    /\ Lookup(fsBefore, Parent(Parent(toolPath))).type = "dir"
    /\ Lookup(fsBefore, Parent(toolPath)).type = "none"
    /\ Lookup(fsBefore, toolPath).type = "none"

ExistingCreateDone ==
    /\ toolPc = "done"
    /\ tool = "create_directory"
    /\ UnderAllowList(toolPath)
    /\ Lookup(fsBefore, toolPath).type = "dir"

\* C21: create_directory on a/b/c, where a exists and b and c do not,
\* succeeds and leaves both b and c existing as directories; on a directory
\* that already exists it succeeds and leaves the filesystem unchanged.
C21_NestedDirectoriesCreated ==
    /\ NestedCreateDone =>
          /\ ~toolOutcome.isError
          /\ Lookup(fs, Parent(toolPath)).type = "dir"
          /\ Lookup(fs, toolPath).type = "dir"
    /\ ExistingCreateDone => ~toolOutcome.isError /\ fs = fsBefore

\* C22: every path a tool run hands to the filesystem (to read, write,
\* create or rename) is a path validatePath returned to that same run.
C22_TouchedPathsValidated == touched \subseteq validated
====
